---- MODULE Spec2Model ----
(***************************************************************************)
(* Atlas Conquest analytics pipeline: the record cleaner (clean_game) and  *)
(* the aggregation engine, as a state machine of main():                   *)
(*   scan one new raw item -> clean it -> merge into the cached games ->   *)
(*   build the aggregates.                                                 *)
(*                                                                         *)
(* Python values are tagged records [t, n, s]: t is the runtime type, n    *)
(* the numeric payload, s the characters of a string (a sequence of        *)
(* one-character strings, so isdigit(), int(), str() and lower() are       *)
(* computed character by character).                                       *)
(***************************************************************************)
EXTENDS Integers, Sequences, FiniteSets, TLC

VARIABLES raw_item, cleaned, all_games, out, pc, now, site, raw_items, scan

vars == <<raw_item, cleaned, all_games, out, pc, now, site, raw_items, scan>>

(***************************************************************************)
(* Bounds of the model                                                     *)
(***************************************************************************)
\* longest collection of games held by the cache in the aggregation runs
MaxGames == 2
\* largest native turnsTaken enumerated for the raw records of the cleaner
MaxRawTurns == 3

(***************************************************************************)
(* Program constants                                                       *)
(***************************************************************************)
MIN_TURNS == 2

COMMANDER_RENAMES ==
  [k \in {"Elber, Jungle Emmisary", "Layna, Soulcatcher", "Lyre, Tactician of the Order"} |->
     CASE k = "Elber, Jungle Emmisary" -> "Elber, Jungle Emissary"
       [] k = "Layna, Soulcatcher" -> "Soultaker Viessa"
       [] OTHER -> "Elyse of the Order"]

CARD_RENAMES == [k \in {} |-> ""]

(***************************************************************************)
(* Python values                                                           *)
(***************************************************************************)
VMissing == [t |-> "missing", n |-> 0, s |-> <<>>]
VNull == [t |-> "null", n |-> 0, s |-> <<>>]
VList == [t |-> "list", n |-> 1, s |-> <<>>]
VBool(b) == [t |-> "bool", n |-> IF b THEN 1 ELSE 0, s |-> <<>>]
VInt(i) == [t |-> "int", n |-> i, s |-> <<>>]
VStr(cs) == [t |-> "str", n |-> 0, s |-> cs]

Digits == <<"0", "1", "2", "3", "4", "5", "6", "7", "8", "9">>

UpperCase == <<"A", "B", "C", "D", "E", "F", "G", "H", "I", "J", "K", "L", "M",
               "N", "O", "P", "Q", "R", "S", "T", "U", "V", "W", "X", "Y", "Z">>

LowerCase == <<"a", "b", "c", "d", "e", "f", "g", "h", "i", "j", "k", "l", "m",
               "n", "o", "p", "q", "r", "s", "t", "u", "v", "w", "x", "y", "z">>

\* dict.get(key, default): an absent key yields the default
Get(v, default) == IF v.t = "missing" THEN default ELSE v

\* bool(v): the truth value Python gives to v in `if v` / `not v`
Truthy(v) ==
  CASE v.t = "bool" -> v.n = 1
    [] v.t = "int" -> v.n # 0
    [] v.t = "str" -> Len(v.s) > 0
    [] v.t = "list" -> v.n > 0
    [] OTHER -> FALSE

\* str.isdigit()
isdigit(cs) ==
  /\ Len(cs) > 0
  /\ \A i \in 1..Len(cs) : \E d \in 1..10 : Digits[d] = cs[i]

DigitVal(c) == (CHOOSE d \in 1..10 : Digits[d] = c) - 1

\* int(s) for a string of digits
RECURSIVE int(_)
int(cs) ==
  IF Len(cs) = 0 THEN 0
  ELSE 10 * int(SubSeq(cs, 1, Len(cs) - 1)) + DigitVal(cs[Len(cs)])

RECURSIVE NatToStr(_)
NatToStr(i) ==
  IF i < 10 THEN <<Digits[i + 1]>>
  ELSE NatToStr(i \div 10) \o <<Digits[(i % 10) + 1]>>

\* str(v)
str(v) ==
  CASE v.t = "str" -> v.s
    [] v.t = "int" -> IF v.n < 0 THEN <<"-">> \o NatToStr(-v.n) ELSE NatToStr(v.n)
    [] v.t = "bool" -> IF v.n = 1 THEN <<"T", "r", "u", "e">> ELSE <<"F", "a", "l", "s", "e">>
    [] v.t = "null" -> <<"N", "o", "n", "e">>
    [] OTHER -> <<"[", "]">>

\* str.lower()
lower(cs) ==
  [i \in 1..Len(cs) |->
     IF \E k \in 1..26 : UpperCase[k] = cs[i]
     THEN LowerCase[CHOOSE k \in 1..26 : UpperCase[k] = cs[i]]
     ELSE cs[i]]

\* `x < k` is defined for numbers (bool is a number); None, lists and dicts raise TypeError
Orderable(v) == v.t \in {"int", "bool"}

\* isinstance(x, str) -> int(x) if x.isdigit() else default; anything else is kept
CoerceInt(v, default) ==
  IF v.t = "str" THEN VInt(IF isdigit(v.s) THEN int(v.s) ELSE default) ELSE v

(***************************************************************************)
(* Raw records (DynamoDB items) and cleaned Games                          *)
(*                                                                         *)
(* raw_item = [gameid, firstPlayer, datetime, datetimeStarted, map,        *)
(*             format, players]                                            *)
(* A timestamp field is [t, fmt, n]: a string in the fixed format ("ok")   *)
(* stands for the instant n (seconds), "bad" is a string strptime rejects. *)
(* The players payload is [enc, top, numPlayers, players]: enc is how the  *)
(* JSON text arrived, top the type of the decoded value; players is        *)
(* [t, n, items] (n = len() of a non-list container).                      *)
(***************************************************************************)
NoOpt == [some |-> FALSE, n |-> 0]

Some(x) == [some |-> TRUE, n |-> x]

EmptyDecklist == [t |-> "dict", commander |-> "", name |-> "", cards |-> <<>>]

NoGame ==
  [game_id |-> <<>>, datetime |-> NoOpt, datetime_started |-> NoOpt,
   duration_minutes |-> NoOpt, map |-> "", format |-> "",
   first_player |-> <<>>, players |-> <<>>]

Rejected == [kind |-> "none", exc |-> "", game |-> NoGame]

Raised(e) == [kind |-> "raise", exc |-> e, game |-> NoGame]

Accepted(g) == [kind |-> "game", exc |-> "", game |-> g]

\* parse_datetime: None for a falsy or unparseable value; .strip() of a non-string raises
parse_datetime(dt) ==
  CASE dt.t \in {"missing", "null"} -> [kind |-> "ok", v |-> NoOpt]
    [] dt.t = "int" -> IF dt.n = 0 THEN [kind |-> "ok", v |-> NoOpt]
                       ELSE [kind |-> "raise", v |-> NoOpt]
    [] dt.t = "str" /\ dt.fmt = "ok" -> [kind |-> "ok", v |-> Some(dt.n)]
    [] OTHER -> [kind |-> "ok", v |-> NoOpt]

\* parse_players_json: the decoded top-level type, or "None" (falsy input,
\* undecodable text).  Plain JSON text, text with doubled quotes wrapped in
\* quotes, and an already decoded value all yield the decoded value.
parse_players_json(raw) ==
  IF raw.enc \in {"missing", "null", "empty", "garbage"} THEN "None" ELSE raw.top

\* variant: the lookup has no default, an unmatched name is lost
normalize_commander_no_default(name) ==
  IF name = "" THEN name
  ELSE IF name \in DOMAIN COMMANDER_RENAMES THEN COMMANDER_RENAMES[name] ELSE ""

normalize_commander(name) ==
  IF name = "" THEN name
  ELSE IF name \in DOMAIN COMMANDER_RENAMES THEN COMMANDER_RENAMES[name] ELSE name

normalize_card(name) ==
  IF name = "" THEN name
  ELSE IF name \in DOMAIN CARD_RENAMES THEN CARD_RENAMES[name] ELSE name

\* a name as the normalisers receive it: a string, or None
Name(s) == [t |-> "str", name |-> s]

NoName == [t |-> "null", name |-> ""]

\* the normalisers on a value that may be None: `if not name: return name`
\* returns None as it is
normalize_commander_value(v) ==
  IF v.t = "null" THEN v ELSE Name(normalize_commander(v.name))

normalize_card_value(v) ==
  IF v.t = "null" THEN v ELSE Name(normalize_card(v.name))

\* the three card loops of clean_game: normalise the name, coerce the count
\* (a digit string is converted, any other string becomes 1), drop empty names
RECURSIVE clean_cards(_)
clean_cards(cards) ==
  IF Len(cards) = 0 THEN <<>>
  ELSE LET c == cards[1]
           name == normalize_card(c.CardName)
           count == CoerceInt(Get(c.Count, VInt(1)), 1)
           rest == clean_cards(Tail(cards))
       IN IF name # "" THEN <<[name |-> name, count |-> count]>> \o rest ELSE rest

\* the minimum-turns loop: "ok", "none" (a player below MIN_TURNS) or the
\* exception raised (p.get on a non-dict entry, `<` on a non-number)
RECURSIVE turns_gate(_, _)
turns_gate(players, i) ==
  IF players.t # "list" THEN "AttributeError"
  ELSE IF i > Len(players.items) THEN "ok"
  ELSE LET p == players.items[i]
       IN IF p.t # "dict" THEN "AttributeError"
          ELSE LET turns == CoerceInt(Get(p.turnsTaken, VInt(0)), 0)
               IN IF ~Orderable(turns) THEN "TypeError"
                  ELSE IF turns.n < MIN_TURNS THEN "none"
                  ELSE turns_gate(players, i + 1)

\* winner = p.get("winner", False); a string becomes (lower() == "true")
clean_winner(p) ==
  LET winner == Get(p.winner, VBool(FALSE))
  IN IF winner.t = "str" THEN VBool(lower(winner.s) = <<"t", "r", "u", "e">>) ELSE winner

\* one iteration of the loop that builds the clean player records
clean_player(p) ==
  LET decklist == Get(p.decklist, EmptyDecklist)
  IN [name |-> p.name,
      winner |-> clean_winner(p),
      commander |-> normalize_commander(decklist.commander),
      deck_name |-> decklist.name,
      turns |-> CoerceInt(Get(p.turnsTaken, VInt(0)), 0),
      actions |-> CoerceInt(Get(p.actionsTaken, VInt(0)), 0),
      cards_in_deck |-> clean_cards(decklist.cards),
      cards_drawn |-> clean_cards(p.cardsDrawn),
      cards_played |-> clean_cards(p.cardsPlayed)]

\* decklist.get(...) raises when a player's decklist is not a dict
build_raises(items) ==
  \E i \in 1..Len(items) : Get(items[i].decklist, EmptyDecklist).t # "dict"

\* the differences below MaxTieSecs seconds that lie halfway between two
\* tenths of a minute and that round(diff / 60, 1) rounds up: the result
\* follows the binary value of diff / 60 (3 / 60 is stored above 0.05,
\* 9 / 60 below 0.15; 15 / 60 and 45 / 60 are exact and go to the even digit)
MaxTieSecs == 120

TiesRoundedUp == {3, 27, 33, 39, 45, 63, 81, 93, 105, 111}

\* round(diff / 60, 1) in tenths of a minute; the differences of the
\* enumerated records that reach MaxTieSecs are whole multiples of 6 seconds
round_tenths(diff) ==
  LET q == diff \div 6
      r == diff % 6
  IN IF r < 3 THEN q
     ELSE IF r > 3 THEN q + 1
     ELSE IF diff < MaxTieSecs THEN (IF diff \in TiesRoundedUp THEN q + 1 ELSE q)
     ELSE IF q % 2 = 0 THEN q ELSE q + 1

\* variant: the `diff > 0` test is missing
duration_of_unguarded(dt_start, dt_end) ==
  IF dt_start.some /\ dt_end.some
  THEN Some(round_tenths(dt_end.n - dt_start.n))
  ELSE NoOpt

duration_of(dt_start, dt_end) ==
  IF dt_start.some /\ dt_end.some /\ dt_end.n - dt_start.n > 0
  THEN Some(round_tenths(dt_end.n - dt_start.n))
  ELSE NoOpt

clean_game(item) ==
  LET first_player == str(Get(item.firstPlayer, VStr(<<"0">>)))
      dt_end == parse_datetime(item.datetime)
      dt_start == parse_datetime(item.datetimeStarted)
      players_data == parse_players_json(item.players)
      num_players == CoerceInt(Get(item.players.numPlayers, VInt(0)), 0)
      players == IF item.players.players.t = "missing"
                 THEN [t |-> "list", n |-> 0, items |-> <<>>]
                 ELSE item.players.players
      len == IF players.t = "list" THEN Len(players.items) ELSE players.n
      gate == turns_gate(players, 1)
  IN IF first_player = <<"0">> THEN Rejected
     ELSE IF dt_end.kind = "raise" \/ dt_start.kind = "raise" THEN Raised("AttributeError")
     ELSE IF players_data \in {"None", "emptydict", "emptylist", "zero", "jsonnull"} THEN Rejected
     ELSE IF players_data # "dict" THEN Raised("AttributeError")
     ELSE IF ~Orderable(num_players) THEN Raised("TypeError")
     ELSE IF num_players.n < 2 THEN Rejected
     ELSE IF players.t \in {"null", "int"} THEN Raised("TypeError")
     ELSE IF len < 2 THEN Rejected
     ELSE IF gate \in {"AttributeError", "TypeError"} THEN Raised(gate)
     ELSE IF gate = "none" THEN Rejected
     ELSE IF build_raises(players.items) THEN Raised("AttributeError")
     ELSE Accepted(
            [game_id |-> item.gameid,
             datetime |-> dt_end.v,
             datetime_started |-> dt_start.v,
             duration_minutes |-> duration_of(dt_start.v, dt_end.v),
             map |-> item.map,
             format |-> item.format,
             first_player |-> first_player,
             players |-> [i \in 1..len |-> clean_player(players.items[i])]])

(***************************************************************************)
(* Aggregators.  A dict (defaultdict) is a function whose domain is the    *)
(* set of keys created so far; reading an absent key yields the default.   *)
(***************************************************************************)
EmptyDict == <<>>

DGet(d, k, default) == IF k \in DOMAIN d THEN d[k] ELSE default

DPut(d, k, v) == [x \in (DOMAIN d) \cup {k} |-> IF x = k THEN v ELSE d[x]]

\* `for x in seq: acc = Op(acc, x)`; the accumulator is evaluated at every
\* step (a step that leaves it as it was is the same as no step)
RECURSIVE FoldLeft(_, _, _)
FoldLeft(Op(_, _), acc, seq) ==
  IF Len(seq) = 0 THEN acc
  ELSE LET next == Op(acc, Head(seq))
       IN IF next = acc THEN FoldLeft(Op, acc, Tail(seq))
          ELSE FoldLeft(Op, next, Tail(seq))

\* `for game in games: for p in game["players"]:` as the rows [game, p] it visits
RECURSIVE player_rows(_)
player_rows(games) ==
  IF Len(games) = 0 THEN <<>>
  ELSE [i \in 1..Len(games[1].players) |-> [game |-> games[1], p |-> games[1].players[i]]]
       \o player_rows(Tail(games))

\* round(num / den, 4) in units of 1/10000 (den > 0); a tie needs den >= 32
round4(num, den) ==
  LET q == (10000 * num) \div den
      r == (10000 * num) % den
  IN IF 2 * r < den THEN q ELSE IF 2 * r > den THEN q + 1 ELSE IF q % 2 = 0 THEN q ELSE q + 1

\* round(num / den, 2) in units of 1/100 (den > 0)
round2(num, den) ==
  LET q == (100 * num) \div den
      r == (100 * num) % den
  IN IF 2 * r < den THEN q ELSE IF 2 * r > den THEN q + 1 ELSE IF q % 2 = 0 THEN q ELSE q + 1

Won(p) == IF Truthy(p.winner) THEN 1 ELSE 0

Min(a, b) == IF a < b THEN a ELSE b

\* ---- aggregate_commander_stats ----
ZeroCommander == [matches |-> 0, wins |-> 0]

\* variant: `matches` incremented inside the `if p["winner"]` branch
commander_stats_step_winners(stats, row) ==
  LET cmd == row.p.commander
      s == DGet(stats, cmd, ZeroCommander)
  IN IF cmd = "" THEN stats
     ELSE DPut(stats, cmd, [matches |-> s.matches + Won(row.p), wins |-> s.wins + Won(row.p)])

commander_stats_step(stats, row) ==
  LET cmd == row.p.commander
      s == DGet(stats, cmd, ZeroCommander)
  IN IF cmd = "" THEN stats
     ELSE DPut(stats, cmd, [matches |-> s.matches + 1, wins |-> s.wins + Won(row.p)])

aggregate_commander_stats(games) ==
  FoldLeft(commander_stats_step, EmptyDict, player_rows(games))

\* ---- aggregate_matchups ----
ZeroMatchup == [wins |-> 0, losses |-> 0]

AddWin(m, a, b) ==
  LET e == DGet(m, <<a, b>>, ZeroMatchup) IN DPut(m, <<a, b>>, [e EXCEPT !.wins = @ + 1])

AddLoss(m, a, b) ==
  LET e == DGet(m, <<a, b>>, ZeroMatchup) IN DPut(m, <<a, b>>, [e EXCEPT !.losses = @ + 1])

\* variant: the winner's side is counted, the loser's side is not
matchups_step_wins_only(matchups, game) ==
  IF Len(game.players) # 2 THEN matchups
  ELSE LET p1 == game.players[1]
           p2 == game.players[2]
           c1 == p1.commander
           c2 == p2.commander
       IN IF c1 = "" \/ c2 = "" THEN matchups
          ELSE IF Truthy(p1.winner) THEN AddWin(matchups, c1, c2)
          ELSE IF Truthy(p2.winner) THEN AddWin(matchups, c2, c1)
          ELSE matchups

matchups_step(matchups, game) ==
  IF Len(game.players) # 2 THEN matchups
  ELSE LET p1 == game.players[1]
           p2 == game.players[2]
           c1 == p1.commander
           c2 == p2.commander
       IN IF c1 = "" \/ c2 = "" THEN matchups
          ELSE IF Truthy(p1.winner) THEN AddLoss(AddWin(matchups, c1, c2), c2, c1)
          ELSE IF Truthy(p2.winner) THEN AddLoss(AddWin(matchups, c2, c1), c1, c2)
          ELSE matchups

aggregate_matchups(games) == FoldLeft(matchups_step, EmptyDict, games)

\* ---- aggregate_card_stats ----
ZeroCard ==
  [deck_count |-> 0, deck_wins |-> 0, drawn_count |-> 0, drawn_wins |-> 0,
   played_count |-> 0, played_wins |-> 0, total_copies |-> 0,
   drawn_instances |-> 0, played_instances |-> 0]

deck_loop(card_data, cards, won) ==
  FoldLeft(LAMBDA cd, c :
             LET d == DGet(cd, c.name, ZeroCard)
             IN DPut(cd, c.name,
                     [d EXCEPT !.deck_count = @ + 1, !.total_copies = @ + c.count.n, !.deck_wins = @ + won]),
           card_data, cards)

drawn_loop(card_data, cards, won) ==
  FoldLeft(LAMBDA cd, c :
             LET d == DGet(cd, c.name, ZeroCard)
             IN DPut(cd, c.name,
                     [d EXCEPT !.drawn_count = @ + 1, !.drawn_instances = @ + c.count.n, !.drawn_wins = @ + won]),
           card_data, cards)

played_loop(card_data, cards, won) ==
  FoldLeft(LAMBDA cd, c :
             LET d == DGet(cd, c.name, ZeroCard)
             IN DPut(cd, c.name,
                     [d EXCEPT !.played_count = @ + 1, !.played_instances = @ + c.count.n, !.played_wins = @ + won]),
           card_data, cards)

card_stats_step(card_data, row) ==
  LET won == Won(row.p)
  IN played_loop(drawn_loop(deck_loop(card_data, row.p.cards_in_deck, won),
                            row.p.cards_drawn, won),
                 row.p.cards_played, won)

\* returns [] for no games, else the tuple (card_data, total_player_games)
aggregate_card_stats(games) ==
  IF Len(games) = 0
  THEN [is_tuple |-> FALSE, card_data |-> EmptyDict, total_player_games |-> 0]
  ELSE [is_tuple |-> TRUE,
        card_data |-> FoldLeft(card_stats_step, EmptyDict, player_rows(games)),
        total_player_games |-> Len(games) * 2]

\* ---- aggregate_first_turn ----
ZeroFirstTurn == [first_games |-> 0, first_wins |-> 0, second_games |-> 0, second_wins |-> 0]

EligibleFirstPlayer(game) == game.first_player \in {<<"1">>, <<"2">>}

\* variant: the two-participant check is missing
first_turn_step_any_size(acc, game) ==
  LET first_idx == int(game.first_player) - 1
  IN IF first_idx \notin {0, 1} THEN acc
     ELSE LET first_p == game.players[first_idx + 1]
              second_p == game.players[(1 - first_idx) + 1]
              c1 == first_p.commander
              c2 == second_p.commander
              s1 == DGet(acc.cmd_stats, c1, ZeroFirstTurn)
              after1 == IF c1 = "" THEN acc.cmd_stats
                        ELSE DPut(acc.cmd_stats, c1,
                                  [s1 EXCEPT !.first_games = @ + 1,
                                             !.first_wins = @ + Won(first_p)])
              s2 == DGet(after1, c2, ZeroFirstTurn)
              after2 == IF c2 = "" THEN after1
                        ELSE DPut(after1, c2,
                                  [s2 EXCEPT !.second_games = @ + 1,
                                             !.second_wins = @ + Won(second_p)])
          IN [first_wins |-> acc.first_wins + Won(first_p), cmd_stats |-> after2]

first_turn_step(acc, game) ==
  IF Len(game.players) # 2 THEN acc
  ELSE LET first_idx == int(game.first_player) - 1
       IN IF first_idx \notin {0, 1} THEN acc
          ELSE LET first_p == game.players[first_idx + 1]
                   second_p == game.players[(1 - first_idx) + 1]
                   c1 == first_p.commander
                   c2 == second_p.commander
                   s1 == DGet(acc.cmd_stats, c1, ZeroFirstTurn)
                   after1 == IF c1 = "" THEN acc.cmd_stats
                             ELSE DPut(acc.cmd_stats, c1,
                                       [s1 EXCEPT !.first_games = @ + 1,
                                                  !.first_wins = @ + Won(first_p)])
                   s2 == DGet(after1, c2, ZeroFirstTurn)
                   after2 == IF c2 = "" THEN after1
                             ELSE DPut(after1, c2,
                                       [s2 EXCEPT !.second_games = @ + 1,
                                                  !.second_wins = @ + Won(second_p)])
               IN [first_wins |-> acc.first_wins + Won(first_p), cmd_stats |-> after2]

Winrate(wins, n) == IF n > 0 THEN Some(round4(wins, n)) ELSE NoOpt

\* variant: with no eligible game the winrate is reported as 0
aggregate_first_turn_zero_rate(games) ==
  LET fp_games == SelectSeq(games, EligibleFirstPlayer)
      total == Len(fp_games)
      acc == FoldLeft(first_turn_step, [first_wins |-> 0, cmd_stats |-> EmptyDict], fp_games)
  IN IF total = 0
     THEN [total_games |-> 0, first_player_wins |-> 0, first_player_winrate |-> Some(0),
           per_commander |-> EmptyDict]
     ELSE [total_games |-> total,
           first_player_wins |-> acc.first_wins,
           first_player_winrate |-> Winrate(acc.first_wins, total),
           per_commander |->
             [cmd \in DOMAIN acc.cmd_stats |->
                LET st == acc.cmd_stats[cmd]
                IN [first_games |-> st.first_games, first_wins |-> st.first_wins,
                    first_winrate |-> Winrate(st.first_wins, st.first_games),
                    second_games |-> st.second_games, second_wins |-> st.second_wins,
                    second_winrate |-> Winrate(st.second_wins, st.second_games)]]]

aggregate_first_turn(games) ==
  LET fp_games == SelectSeq(games, EligibleFirstPlayer)
      total == Len(fp_games)
      acc == FoldLeft(first_turn_step, [first_wins |-> 0, cmd_stats |-> EmptyDict], fp_games)
  IN IF total = 0
     THEN [total_games |-> 0, first_player_wins |-> 0, first_player_winrate |-> NoOpt,
           per_commander |-> EmptyDict]
     ELSE [total_games |-> total,
           first_player_wins |-> acc.first_wins,
           first_player_winrate |-> Winrate(acc.first_wins, total),
           per_commander |->
             [cmd \in DOMAIN acc.cmd_stats |->
                LET st == acc.cmd_stats[cmd]
                IN [first_games |-> st.first_games, first_wins |-> st.first_wins,
                    first_winrate |-> Winrate(st.first_wins, st.first_games),
                    second_games |-> st.second_games, second_wins |-> st.second_wins,
                    second_winrate |-> Winrate(st.second_wins, st.second_games)]]]

\* ---- aggregate_matchup_details ----
\* a dict with its insertion order: the keys in the order of their first
\* assignment and the values
OEmpty == [keys |-> <<>>, val |-> EmptyDict]

OGet(d, k, default) == DGet(d.val, k, default)

OPut(d, k, v) ==
  [keys |-> IF k \in DOMAIN d.val THEN d.keys ELSE Append(d.keys, k),
   val |-> DPut(d.val, k, v)]

ZeroDetailCard == [played |-> 0, played_wins |-> 0, drawn |-> 0, drawn_wins |-> 0]

ZeroDetail ==
  [wins |-> 0, losses |-> 0, cmd_first_games |-> 0, cmd_first_wins |-> 0,
   opp_first_games |-> 0, opp_first_wins |-> 0, cmd_cards |-> OEmpty, opp_cards |-> OEmpty]

\* matchup_data[key][field] += 1
Tally(md, key, field) ==
  OPut(md, key, [OGet(md, key, ZeroDetail) EXCEPT ![field] = @ + 1])

\* matchup_data[key][side][name][field] += 1
TallyCard(md, key, side, name, field) ==
  LET e == OGet(md, key, ZeroDetail)
      c == OGet(e[side], name, ZeroDetailCard)
  IN OPut(md, key, [e EXCEPT ![side] = OPut(@, name, [c EXCEPT ![field] = @ + 1])])

\* one of the four card loops: the cards of the player of `mine`, counted for
\* `mine` as cmd_cards and for `theirs` as opp_cards
detail_cards_loop(md, cards, mine, theirs, won, field) ==
  FoldLeft(LAMBDA acc, c :
             LET counted == TallyCard(TallyCard(acc, mine, "cmd_cards", c.name, field),
                                      theirs, "opp_cards", c.name, field)
             IN IF won
                THEN TallyCard(TallyCard(counted, mine, "cmd_cards", c.name, field \o "_wins"),
                               theirs, "opp_cards", c.name, field \o "_wins")
                ELSE counted,
           md, cards)

matchup_details_step(md, game) ==
  IF Len(game.players) # 2 THEN md
  ELSE LET p1 == game.players[1]
           p2 == game.players[2]
           c1 == p1.commander
           c2 == p2.commander
           key1 == <<c1, c2>>
           key2 == <<c2, c1>>
           p1_won == Truthy(p1.winner)
           p2_won == Truthy(p2.winner)
           a1 == IF p1_won THEN Tally(md, key1, "wins")
                 ELSE IF p2_won THEN Tally(md, key1, "losses") ELSE md
           a2 == IF p2_won THEN Tally(a1, key2, "wins")
                 ELSE IF p1_won THEN Tally(a1, key2, "losses") ELSE a1
           first_idx == int(game.first_player) - 1
           f1 == IF first_idx = 0
                 THEN Tally(Tally(a2, key1, "cmd_first_games"), key2, "opp_first_games")
                 ELSE Tally(Tally(a2, key1, "opp_first_games"), key2, "cmd_first_games")
           f2 == IF first_idx = 0
                 THEN IF p1_won
                      THEN Tally(Tally(f1, key1, "cmd_first_wins"), key2, "opp_first_wins")
                      ELSE f1
                 ELSE IF p2_won
                      THEN Tally(Tally(f1, key1, "opp_first_wins"), key2, "cmd_first_wins")
                      ELSE f1
           a3 == IF EligibleFirstPlayer(game) THEN f2 ELSE a2
           a4 == detail_cards_loop(a3, p1.cards_played, key1, key2, p1_won, "played")
           a5 == detail_cards_loop(a4, p1.cards_drawn, key1, key2, p1_won, "drawn")
           a6 == detail_cards_loop(a5, p2.cards_played, key2, key1, p2_won, "played")
       IN IF c1 = "" \/ c2 = "" THEN md
          ELSE detail_cards_loop(a6, p2.cards_drawn, key2, key1, p2_won, "drawn")

\* the sort key (-played_winrate, -played): x comes strictly before y
RanksBefore(x, y) ==
  \/ x.played_winrate > y.played_winrate
  \/ (x.played_winrate = y.played_winrate /\ x.played > y.played)

\* list.sort is stable: an entry goes before the first one it ranks before
RECURSIVE sort_insert(_, _)
sort_insert(sorted, x) ==
  IF Len(sorted) = 0 THEN <<x>>
  ELSE IF RanksBefore(x, sorted[1]) THEN <<x>> \o sorted
  ELSE <<sorted[1]>> \o sort_insert(Tail(sorted), x)

top_limit == 10

min_games == 3

\* variant: the list is cut before it is sorted
top_cards_cut_first(card_dict) ==
  LET eligible == SelectSeq(card_dict.keys, LAMBDA name : card_dict.val[name].played >= min_games)
      cards == [i \in 1..Len(eligible) |->
                  LET d == card_dict.val[eligible[i]]
                  IN [name |-> eligible[i], played |-> d.played,
                      played_winrate |-> round4(d.played_wins, d.played),
                      drawn |-> d.drawn,
                      drawn_winrate |-> IF d.drawn > 0 THEN Some(round4(d.drawn_wins, d.drawn))
                                        ELSE NoOpt]]
  IN FoldLeft(sort_insert, <<>>, SubSeq(cards, 1, Min(top_limit, Len(cards))))

top_cards(card_dict) ==
  LET eligible == SelectSeq(card_dict.keys, LAMBDA name : card_dict.val[name].played >= min_games)
      cards == [i \in 1..Len(eligible) |->
                  LET d == card_dict.val[eligible[i]]
                  IN [name |-> eligible[i], played |-> d.played,
                      played_winrate |-> round4(d.played_wins, d.played),
                      drawn |-> d.drawn,
                      drawn_winrate |-> IF d.drawn > 0 THEN Some(round4(d.drawn_wins, d.drawn))
                                        ELSE NoOpt]]
      sorted == FoldLeft(sort_insert, <<>>, cards)
  IN SubSeq(sorted, 1, Min(top_limit, Len(sorted)))

detail_record(md, key) ==
  LET data == md.val[key]
      total == data.wins + data.losses
  IN [commander |-> key[1], opponent |-> key[2], wins |-> data.wins,
      losses |-> data.losses, total |-> total,
      winrate |-> IF total > 0 THEN round4(data.wins, total) ELSE 0,
      first_turn |-> [cmd_first_games |-> data.cmd_first_games,
                      cmd_first_wins |-> data.cmd_first_wins,
                      opp_first_games |-> data.opp_first_games,
                      opp_first_wins |-> data.opp_first_wins],
      cmd_cards |-> top_cards(data.cmd_cards),
      opp_cards |-> top_cards(data.opp_cards)]

aggregate_matchup_details(games) ==
  LET results(md) ==
        LET kept == SelectSeq(md.keys, LAMBDA key : md.val[key].wins + md.val[key].losses >= 1)
        IN [i \in 1..Len(kept) |-> detail_record(md, kept[i])]
  IN results(FoldLeft(matchup_details_step, OEmpty, games))

\* ---- winrate by bucket (duration / actions / turns) ----
\* durations are held in tenths of a minute
duration_bucket(mins10) ==
  IF mins10 < 100 THEN 0 ELSE IF mins10 < 200 THEN 1 ELSE IF mins10 < 300 THEN 2 ELSE 3

action_bucket(actions) ==
  IF actions < 30 THEN 0 ELSE IF actions < 60 THEN 1 ELSE IF actions < 90 THEN 2
  ELSE IF actions < 120 THEN 3 ELSE 4

turn_bucket(turns) ==
  IF turns < 5 THEN 0 ELSE IF turns < 8 THEN 1 ELSE IF turns < 11 THEN 2
  ELSE IF turns < 14 THEN 3 ELSE 4

ZeroBuckets(n) == [i \in 1..n |-> [wins |-> 0, total |-> 0]]

\* variant: `total` incremented inside the `if p["winner"]` branch
bucket_count_winners(stats, cmd, bucket, n, won) ==
  LET row == DGet(stats, cmd, ZeroBuckets(n))
  IN DPut(stats, cmd,
          [row EXCEPT ![bucket + 1] = [wins |-> @.wins + won, total |-> @.total + won]])

\* stats[cmd][bucket]["total"] += 1, and ["wins"] += 1 for a winner
bucket_count(stats, cmd, bucket, n, won) ==
  LET row == DGet(stats, cmd, ZeroBuckets(n))
  IN DPut(stats, cmd,
          [row EXCEPT ![bucket + 1] = [wins |-> @.wins + won, total |-> @.total + 1]])

duration_step(stats, row) ==
  LET dur == row.game.duration_minutes
  IN IF ~dur.some THEN stats
     ELSE IF row.p.commander = "" THEN stats
     ELSE bucket_count(stats, row.p.commander, duration_bucket(dur.n), 4, Won(row.p))

action_step(stats, row) ==
  IF row.p.commander = "" THEN stats
  ELSE IF ~Truthy(row.p.actions) THEN stats
  ELSE bucket_count(stats, row.p.commander, action_bucket(row.p.actions.n), 5, Won(row.p))

turn_step(stats, row) ==
  IF row.p.commander = "" THEN stats
  ELSE IF ~Truthy(row.p.turns) THEN stats
  ELSE bucket_count(stats, row.p.commander, turn_bucket(row.p.turns.n), 5, Won(row.p))

\* the `commanders` part of a bucketed result: per bucket its winrate and games
bucket_result(stats) ==
  [cmd \in DOMAIN stats |->
     [i \in 1..Len(stats[cmd]) |->
        [winrate |-> Winrate(stats[cmd][i].wins, stats[cmd][i].total),
         games |-> stats[cmd][i].total]]]

aggregate_duration_winrates(games) ==
  bucket_result(FoldLeft(duration_step, EmptyDict, player_rows(games)))

aggregate_action_winrates(games) ==
  bucket_result(FoldLeft(action_step, EmptyDict, player_rows(games)))

aggregate_turn_winrates(games) ==
  bucket_result(FoldLeft(turn_step, EmptyDict, player_rows(games)))

(***************************************************************************)
(* build_and_write_all for the all-time / all-maps cell: each entry keyed  *)
(* by name (the emitted lists carry one entry per key)                     *)
(***************************************************************************)
build_and_write_all(games) ==
  LET cmd_stats_raw == aggregate_commander_stats(games)
      matchup_raw == aggregate_matchups(games)
      all_commanders == {k[1] : k \in DOMAIN matchup_raw}
      cards == aggregate_card_stats(games)
      tpg == cards.total_player_games
  IN [commander_stats |->
        [name \in DOMAIN cmd_stats_raw |->
           [matches |-> cmd_stats_raw[name].matches,
            wins |-> cmd_stats_raw[name].wins,
            winrate |-> IF cmd_stats_raw[name].matches > 0
                        THEN round4(cmd_stats_raw[name].wins, cmd_stats_raw[name].matches)
                        ELSE 0]],
      matchups |->
        [k \in {x \in all_commanders \X all_commanders :
                  DGet(matchup_raw, x, ZeroMatchup).wins
                    + DGet(matchup_raw, x, ZeroMatchup).losses # 0} |->
           LET data == DGet(matchup_raw, k, ZeroMatchup)
           IN [wins |-> data.wins, losses |-> data.losses,
               total |-> data.wins + data.losses,
               winrate |-> round4(data.wins, data.wins + data.losses)]],
      \* a winrate is Some(number): these lines never write None
      card_stats |->
        [name \in DOMAIN cards.card_data |->
           LET data == cards.card_data[name]
           IN [deck_count |-> data.deck_count,
               deck_rate |-> IF tpg > 0 THEN round4(data.deck_count, tpg) ELSE 0,
               deck_winrate |-> Some(IF data.deck_count > 0
                                     THEN round4(data.deck_wins, data.deck_count) ELSE 0),
               drawn_count |-> data.drawn_count,
               drawn_rate |-> IF tpg > 0 THEN round4(data.drawn_count, tpg) ELSE 0,
               drawn_winrate |-> Some(IF data.drawn_count > 0
                                      THEN round4(data.drawn_wins, data.drawn_count) ELSE 0),
               played_count |-> data.played_count,
               played_rate |-> IF tpg > 0 THEN round4(data.played_count, tpg) ELSE 0,
               played_winrate |-> Some(IF data.played_count > 0
                                       THEN round4(data.played_wins, data.played_count) ELSE 0),
               avg_copies |-> IF data.deck_count > 0
                              THEN round2(data.total_copies, data.deck_count) ELSE 0,
               drawn_instances |-> data.drawn_instances,
               played_instances |-> data.played_instances]],
      first_turn |-> aggregate_first_turn(games),
      duration_wr |-> aggregate_duration_winrates(games),
      action_wr |-> aggregate_action_winrates(games),
      turn_wr |-> aggregate_turn_winrates(games)]

(***************************************************************************)
(* Period and map slices.  Instants are seconds; `clock` is the reading of *)
(* datetime.now(timezone.utc) of the run.  A cleaned datetime is the       *)
(* isoformat() text of the parsed instant, which fromisoformat() reads     *)
(* back to the same instant (taken as UTC).                                *)
(***************************************************************************)
Day == 86400

PeriodKeys == <<"all", "6m", "3m", "1m">>

\* variant: the period "all" is a window of 30 days as well
PERIODS_all_windowed == ("all" :> Some(30)) @@ ("6m" :> Some(180)) @@ ("3m" :> Some(90)) @@ ("1m" :> Some(30))

PERIODS == ("all" :> NoOpt) @@ ("6m" :> Some(180)) @@ ("3m" :> Some(90)) @@ ("1m" :> Some(30))

MAPS == <<"all", "Dunes", "Snowmelt", "Tropics">>

filter_games_by_period(games, days, clock) ==
  IF ~days.some THEN games
  ELSE SelectSeq(games, LAMBDA g : g.datetime.some /\ g.datetime.n >= clock - days.n * Day)

filter_games_by_map(games, map_name) ==
  IF map_name = "all" THEN games
  ELSE SelectSeq(games, LAMBDA g : g.map = map_name)

(***************************************************************************)
(* aggregate_game_distributions: histograms of the duration (2 minute      *)
(* buckets), of the turns and of the actions summed over the players       *)
(***************************************************************************)
RECURSIVE SumOver(_, _)
SumOver(players, field) ==
  IF Len(players) = 0 THEN 0
  ELSE (IF field = "turns" THEN players[1].turns.n ELSE players[1].actions.n)
         + SumOver(Tail(players), field)

\* counts[bucket] += 1; a negative bucket indexes from the end of the list
Bump(counts, bucket) ==
  LET i == IF bucket < 0 THEN Len(counts) + bucket + 1 ELSE bucket + 1
  IN [counts EXCEPT ![i] = @ + 1]

ZeroHistogram(n) == [counts |-> [i \in 1..n |-> 0], total |-> 0]

distributions_step(acc, game) ==
  LET dur == game.duration_minutes
      d1 == IF dur.some /\ dur.n >= 0
            THEN [counts |-> Bump(acc.duration.counts, Min(dur.n \div 20, 24)),
                  total |-> acc.duration.total + 1]
            ELSE acc.duration
      total_turns == SumOver(game.players, "turns")
      total_actions == SumOver(game.players, "actions")
  IN [duration |-> d1,
      turns |-> [counts |-> Bump(acc.turns.counts, Min(total_turns \div 2, 20)),
                 total |-> acc.turns.total + 1],
      actions |-> [counts |-> Bump(acc.actions.counts, Min(total_actions \div 20, 11)),
                   total |-> acc.actions.total + 1]]

aggregate_game_distributions(games) ==
  FoldLeft(distributions_step,
           [duration |-> ZeroHistogram(25), turns |-> ZeroHistogram(21),
            actions |-> ZeroHistogram(12)],
           games)

(***************************************************************************)
(* Weekly trends.  Instant 0 is Monday 1 January 00:00 of a year of 365    *)
(* days, as is the next year; strftime("%Y-W%W") is <<year, week>>, with   *)
(* the days before the first Monday of a year in week 0.                   *)
(***************************************************************************)
WeekOf(n) ==
  LET day == n \div Day
      yday == day % 365
      wday == day % 7
  IN <<day \div 365, (yday + 7 - wday) \div 7>>

WeekBefore(a, b) == a[1] < b[1] \/ (a[1] = b[1] /\ a[2] < b[2])

\* sorted(weekly.keys())
RECURSIVE sorted_weeks(_)
sorted_weeks(S) ==
  IF S = {} THEN <<>>
  ELSE LET first == CHOOSE w \in S : \A v \in S \ {w} : WeekBefore(w, v)
       IN <<first>> \o sorted_weeks(S \ {first})

\* the loop shared by aggregate_trends and aggregate_commander_trends:
\* weekly[week][cmd] and weekly_total[week]
weekly_step(acc, row) ==
  IF ~row.game.datetime.some \/ row.p.commander = "" THEN acc
  ELSE LET week == WeekOf(row.game.datetime.n)
           w == DGet(acc.weekly, week, EmptyDict)
       IN [weekly |-> DPut(acc.weekly, week, DPut(w, row.p.commander, DGet(w, row.p.commander, 0) + 1)),
           weekly_total |-> DPut(acc.weekly_total, week, DGet(acc.weekly_total, week, 0) + 1)]

aggregate_trends(games) ==
  FoldLeft(weekly_step, [weekly |-> EmptyDict, weekly_total |-> EmptyDict], player_rows(games))

\* round(x * 100, 1) of x = num / den, in tenths of a percent
round_pct(num, den) ==
  LET q == (1000 * num) \div den
      r == (1000 * num) % den
  IN IF 2 * r < den THEN q ELSE IF 2 * r > den THEN q + 1 ELSE IF q % 2 = 0 THEN q ELSE q + 1

\* variant: a week appends only to the commanders picked in it
trends_week_step_picked_only(acc, week, t) ==
  LET total == t.weekly_total[week]
  IN IF total < 4 THEN acc
     ELSE [dates |-> Append(acc.dates, week),
           commanders |->
             [cmd \in DOMAIN acc.commanders \cup DOMAIN t.weekly[week] |->
                IF cmd \in DOMAIN t.weekly[week]
                THEN Append(DGet(acc.commanders, cmd, <<>>),
                            round_pct(t.weekly[week][cmd], total))
                ELSE acc.commanders[cmd]]]

\* one turn of `for week in sorted_weeks`: a kept week is appended to dates
\* and one percentage to the list of every commander of any week
trends_week_step(acc, week, t) ==
  LET total == t.weekly_total[week]
      cmds == UNION {DOMAIN t.weekly[w] : w \in DOMAIN t.weekly}
  IN IF total < 4 THEN acc
     ELSE [dates |-> Append(acc.dates, week),
           commanders |->
             [cmd \in cmds |->
                Append(DGet(acc.commanders, cmd, <<>>),
                       round_pct(DGet(t.weekly[week], cmd, 0), total))]]

aggregate_commander_trends(games) ==
  LET t == aggregate_trends(games)
  IN FoldLeft(LAMBDA acc, week : trends_week_step(acc, week, t),
              [dates |-> <<>>, commanders |-> EmptyDict],
              sorted_weeks(DOMAIN t.weekly))

\* ---- aggregate_commander_winrate_trends ----
ZeroWeekBucket == [w |-> 0, t |-> 0, w_nm |-> 0, t_nm |-> 0]

\* `for p in players` of one game of the week
winrate_trends_player(weekly, p, is_mirror, week) ==
  IF p.commander = "" THEN weekly
  ELSE LET of_week == DGet(weekly, week, EmptyDict)
           b == DGet(of_week, p.commander, ZeroWeekBucket)
           won == Won(p)
           nm == IF is_mirror THEN 0 ELSE 1
       IN DPut(weekly, week,
               DPut(of_week, p.commander,
                    [w |-> b.w + won, t |-> b.t + 1,
                     w_nm |-> b.w_nm + nm * won, t_nm |-> b.t_nm + nm]))

winrate_trends_step(acc, game) ==
  IF ~game.datetime.some \/ Len(game.players) # 2 THEN acc
  ELSE LET week == WeekOf(game.datetime.n)
           players == game.players
           is_mirror == players[1].commander = players[2].commander
       IN [weekly |-> FoldLeft(LAMBDA weekly, p : winrate_trends_player(weekly, p, is_mirror, week),
                            acc.weekly, players),
           weekly_total |-> DPut(acc.weekly_total, week, DGet(acc.weekly_total, week, 0) + 1)]

\* one turn of `for week in sorted_weeks`: a kept week is appended to dates
\* and one entry to each of the four lists of every commander
winrate_week_step(acc, week, t) ==
  IF t.weekly_total[week] < 4 THEN acc
  ELSE [dates |-> Append(acc.dates, week),
        commanders |->
          [cmd \in DOMAIN acc.commanders |->
             LET b == DGet(t.weekly[week], cmd, ZeroWeekBucket)
                 lists == acc.commanders[cmd]
             IN [winrate |-> Append(lists.winrate,
                                    IF b.t > 0 THEN Some(round_pct(b.w, b.t)) ELSE NoOpt),
                 games |-> Append(lists.games, b.t),
                 winrate_no_mirror |-> Append(lists.winrate_no_mirror,
                                              IF b.t_nm > 0 THEN Some(round_pct(b.w_nm, b.t_nm))
                                              ELSE NoOpt),
                 games_no_mirror |-> Append(lists.games_no_mirror, b.t_nm)]]]

aggregate_commander_winrate_trends(games) ==
  LET t == FoldLeft(winrate_trends_step, [weekly |-> EmptyDict, weekly_total |-> EmptyDict], games)
      all_cmds == UNION {DOMAIN t.weekly[w] : w \in DOMAIN t.weekly}
  IN FoldLeft(LAMBDA acc, week : winrate_week_step(acc, week, t),
              [dates |-> <<>>,
               commanders |-> [cmd \in all_cmds |->
                                 [winrate |-> <<>>, games |-> <<>>,
                                  winrate_no_mirror |-> <<>>, games_no_mirror |-> <<>>]]],
              sorted_weeks(DOMAIN t.weekly))

\* ---- faction trends of build_and_write_all ----
\* the commanders file: the faction of each commander it lists
cmd_faction == [c \in {"Alpha"} |-> "skaal"]

FACTIONS == <<"skaal", "grenalia", "lucia", "neutral", "shadis", "archaeon">>

\* faction_counts[faction] of one week
RECURSIVE faction_count(_, _, _)
faction_count(of_week, cmds, faction) ==
  IF cmds = {} THEN 0
  ELSE LET cmd == CHOOSE c \in cmds : TRUE
       IN (IF DGet(cmd_faction, cmd, "neutral") = faction THEN of_week[cmd] ELSE 0)
          + faction_count(of_week, cmds \ {cmd}, faction)

faction_trends(games) ==
  LET t == aggregate_trends(games)
      all_weeks == sorted_weeks(DOMAIN t.weekly)
      dates == SelectSeq(all_weeks, LAMBDA w : t.weekly_total[w] >= 4)
  IN [dates |-> dates,
      factions |->
        IF Len(dates) = 0 THEN EmptyDict
        ELSE [f \in {FACTIONS[k] : k \in 1..Len(FACTIONS)} |->
                [i \in 1..Len(dates) |->
                   round_pct(faction_count(t.weekly[dates[i]], DOMAIN t.weekly[dates[i]], f),
                             t.weekly_total[dates[i]])]]]

\* ---- aggregate_deck_composition ----
\* the cards file: cost, type and faction of the cards it lists
card_info ==
  ("C01" :> [cost |-> Some(2), type |-> "Minion", faction |-> "skaal"])
    @@ ("C02" :> [cost |-> Some(13), type |-> "Spell", faction |-> "neutral"])
    @@ ("C03" :> [cost |-> NoOpt, type |-> "", faction |-> "lucia"])

\* card_info.get(name, {}) read with .get("cost"), .get("type", "") and
\* .get("faction", "neutral")
NoCardInfo == [cost |-> NoOpt, type |-> "", faction |-> "neutral"]

NUM_BUCKETS == 13

ZeroDeck ==
  [total_cost_weighted |-> 0, total_card_count |-> 0,
   cost_curve |-> [i \in 1..NUM_BUCKETS |-> 0],
   minion_count |-> 0, spell_count |-> 0,
   patron_count |-> 0, neutral_count |-> 0, other_count |-> 0]

\* one turn of `for card in p.get("cards_in_deck", [])`
deck_card_step(acc, card, commander_faction) ==
  LET count == card.count.n
      info == DGet(card_info, card.name, NoCardInfo)
      costed == IF info.cost.some
                THEN [acc EXCEPT !.total_cost_weighted = @ + info.cost.n * count,
                                 !.cost_curve[Min(info.cost.n, 12) + 1] = @ + count]
                ELSE acc
      typed == [costed EXCEPT !.total_card_count = @ + count,
                              !.minion_count = @ + (IF info.type = "Minion" THEN count ELSE 0),
                              !.spell_count = @ + (IF info.type = "Spell" THEN count ELSE 0)]
  IN IF info.faction = commander_faction THEN [typed EXCEPT !.patron_count = @ + count]
     ELSE IF info.faction = "neutral" THEN [typed EXCEPT !.neutral_count = @ + count]
     ELSE [typed EXCEPT !.other_count = @ + count]

\* deck_stats of one player; avg_cost is kept as the fraction
\* total_cost_weighted / total_card_count (0 / 1 without cards)
deck_stats(p, commander_faction) ==
  LET d == FoldLeft(LAMBDA acc, card : deck_card_step(acc, card, commander_faction),
                    ZeroDeck, p.cards_in_deck)
  IN [avg_cost |-> IF d.total_card_count > 0
                   THEN [num |-> d.total_cost_weighted, den |-> d.total_card_count]
                   ELSE [num |-> 0, den |-> 1],
      cost_curve |-> d.cost_curve,
      minion_count |-> d.minion_count, spell_count |-> d.spell_count,
      patron_count |-> d.patron_count, neutral_count |-> d.neutral_count,
      other_count |-> d.other_count]

NoDecks == [faction |-> "", all |-> <<>>, win |-> <<>>, loss |-> <<>>]

\* variant: the deck of a loser is not kept
deck_composition_step_winners(cmd_data, row) ==
  LET cmd == row.p.commander
      commander_faction == DGet(cmd_faction, cmd, "neutral")
      data == DGet(cmd_data, cmd, NoDecks)
      stats == deck_stats(row.p, commander_faction)
  IN IF cmd = "" THEN cmd_data
     ELSE DPut(cmd_data, cmd,
               [faction |-> commander_faction,
                all |-> IF Truthy(row.p.winner) THEN Append(data.all, stats) ELSE data.all,
                win |-> IF Truthy(row.p.winner) THEN Append(data.win, stats) ELSE data.win,
                loss |-> data.loss])

deck_composition_step(cmd_data, row) ==
  LET cmd == row.p.commander
      commander_faction == DGet(cmd_faction, cmd, "neutral")
      data == DGet(cmd_data, cmd, NoDecks)
      stats == deck_stats(row.p, commander_faction)
  IN IF cmd = "" THEN cmd_data
     ELSE DPut(cmd_data, cmd,
               [faction |-> commander_faction,
                all |-> Append(data.all, stats),
                win |-> IF Truthy(row.p.winner) THEN Append(data.win, stats) ELSE data.win,
                loss |-> IF Truthy(row.p.winner) THEN data.loss ELSE Append(data.loss, stats)])

\* cmd_data after the loop over the games
deck_composition_data(games) == FoldLeft(deck_composition_step, EmptyDict, player_rows(games))

\* avg_field of a count: round(sum / len, 2), 0 without decks
avg_field(decks, field) ==
  IF Len(decks) = 0 THEN 0
  ELSE round2(FoldLeft(LAMBDA acc, d : acc + d[field], 0, decks), Len(decks))

\* avg_field(decks, "avg_cost"): the mean of the fractions
avg_cost_field(decks) ==
  LET sum == FoldLeft(LAMBDA acc, d : [num |-> acc.num * d.avg_cost.den + d.avg_cost.num * acc.den,
                                       den |-> acc.den * d.avg_cost.den],
                      [num |-> 0, den |-> 1], decks)
  IN IF Len(decks) = 0 THEN 0 ELSE round2(sum.num, sum.den * Len(decks))

avg_curve(decks) ==
  [i \in 1..NUM_BUCKETS |->
     IF Len(decks) = 0 THEN 0
     ELSE round2(FoldLeft(LAMBDA acc, d : acc + d.cost_curve[i], 0, decks), Len(decks))]

aggregate_deck_composition(games) ==
  LET result(faction, a, w, l) ==
           [faction |-> faction,
            deck_count |-> Len(a),
            avg_cost |-> avg_cost_field(a),
            cost_histogram |-> [all_decks |-> avg_curve(a), winning_decks |-> avg_curve(w),
                                losing_decks |-> avg_curve(l)],
            avg_minion_count |-> avg_field(a, "minion_count"),
            avg_spell_count |-> avg_field(a, "spell_count"),
            avg_patron_cards |-> avg_field(a, "patron_count"),
            avg_neutral_cards |-> avg_field(a, "neutral_count"),
            avg_other_cards |-> avg_field(a, "other_count"),
            win_avg_minion_count |-> avg_field(w, "minion_count"),
            win_avg_spell_count |-> avg_field(w, "spell_count"),
            loss_avg_minion_count |-> avg_field(l, "minion_count"),
            loss_avg_spell_count |-> avg_field(l, "spell_count")]
      results(cmd_data) ==
        [cmd \in DOMAIN cmd_data |->
           result(cmd_data[cmd].faction, cmd_data[cmd].all, cmd_data[cmd].win,
                  cmd_data[cmd].loss)]
  IN results(deck_composition_data(games))

\* ---- aggregate_commander_card_stats ----
ZeroCommanderCard ==
  [deck |-> 0, deck_wins |-> 0, drawn |-> 0, drawn_wins |-> 0, played |-> 0,
   played_wins |-> 0, total_copies |-> 0, drawn_instances |-> 0, played_instances |-> 0]

\* one of the three card loops over a list of the player: the count, the
\* copies and the wins of each entry
commander_cards_loop(cards_of, cards, won, count, copies, wins) ==
  FoldLeft(LAMBDA acc, c :
             LET d == OGet(acc, c.name, ZeroCommanderCard)
             IN OPut(acc, c.name,
                     [d EXCEPT ![count] = @ + 1, ![copies] = @ + c.count.n, ![wins] = @ + won]),
           cards_of, cards)

commander_card_stats_step(acc, row) ==
  LET cmd == row.p.commander
      won == Won(row.p)
      in_deck == commander_cards_loop(DGet(acc.stats, cmd, OEmpty), row.p.cards_in_deck, won,
                                      "deck", "total_copies", "deck_wins")
      drawn == commander_cards_loop(in_deck, row.p.cards_drawn, won,
                                    "drawn", "drawn_instances", "drawn_wins")
      played == commander_cards_loop(drawn, row.p.cards_played, won,
                                     "played", "played_instances", "played_wins")
  IN IF cmd = "" THEN acc
     ELSE [cmd_games |-> DPut(acc.cmd_games, cmd, DGet(acc.cmd_games, cmd, 0) + 1),
           stats |-> IF Len(played.keys) = 0 THEN acc.stats ELSE DPut(acc.stats, cmd, played)]

\* card_list.sort(key=inclusion_rate, reverse=True): a stable sort
RECURSIVE insert_by_inclusion(_, _)
insert_by_inclusion(sorted, x) ==
  IF Len(sorted) = 0 THEN <<x>>
  ELSE IF x.inclusion_rate > sorted[1].inclusion_rate THEN <<x>> \o sorted
  ELSE <<sorted[1]>> \o insert_by_inclusion(Tail(sorted), x)

commander_card_list(cards, total) ==
  FoldLeft(insert_by_inclusion, <<>>,
           [i \in 1..Len(cards.keys) |->
              LET d == cards.val[cards.keys[i]]
              IN [name |-> cards.keys[i],
                  inclusion_rate |-> round4(d.deck, total),
                  drawn_rate |-> round4(d.drawn, total),
                  drawn_winrate |-> IF d.drawn > 0 THEN Some(round4(d.drawn_wins, d.drawn))
                                    ELSE NoOpt,
                  played_rate |-> round4(d.played, total),
                  played_winrate |-> IF d.played > 0 THEN Some(round4(d.played_wins, d.played))
                                     ELSE NoOpt,
                  drawn_count |-> d.drawn, played_count |-> d.played,
                  drawn_instances |-> d.drawn_instances,
                  played_instances |-> d.played_instances,
                  avg_copies |-> IF d.deck > 0 THEN round2(d.total_copies, d.deck) ELSE 0,
                  deck_count |-> d.deck,
                  games |-> total]])

aggregate_commander_card_stats(games) ==
  LET acc == FoldLeft(commander_card_stats_step, [cmd_games |-> EmptyDict, stats |-> EmptyDict],
                      player_rows(games))
  IN [cmd \in DOMAIN acc.stats |-> commander_card_list(acc.stats[cmd], acc.cmd_games[cmd])]

(***************************************************************************)
(* Exceptions of the aggregators on cleaned Games: arithmetic on a value   *)
(* that is not a number raises TypeError                                   *)
(***************************************************************************)
IsNumber(v) == v.t \in {"int", "bool"}

\* total_copies / drawn_instances / played_instances += c.get("count", 1)
card_stats_raises(games) ==
  \E i \in 1..Len(games) : \E j \in 1..Len(games[i].players) :
     LET p == games[i].players[j]
     IN \E l \in {p.cards_in_deck, p.cards_drawn, p.cards_played} :
           \E k \in 1..Len(l) : ~IsNumber(l[k].count)

\* the same sums per commander: the lists of the players with a commander
commander_card_stats_raises(games) ==
  \E i \in 1..Len(games) : \E j \in 1..Len(games[i].players) :
     LET p == games[i].players[j]
     IN /\ p.commander # ""
        /\ \E l \in {p.cards_in_deck, p.cards_drawn, p.cards_played} :
              \E k \in 1..Len(l) : ~IsNumber(l[k].count)

\* total_card_count += count over the deck of a player with a commander
deck_composition_raises(games) ==
  \E i \in 1..Len(games) : \E j \in 1..Len(games[i].players) :
     LET p == games[i].players[j]
     IN /\ p.commander # ""
        /\ \E k \in 1..Len(p.cards_in_deck) : ~IsNumber(p.cards_in_deck[k].count)

\* sum(p.get("turns", 0) ...), sum(p.get("actions", 0) ...); an index below
\* the start of the list
distributions_raises(games) ==
  \E i \in 1..Len(games) :
     \/ \E j \in 1..Len(games[i].players) :
           \/ ~IsNumber(games[i].players[j].turns)
           \/ ~IsNumber(games[i].players[j].actions)
     \/ SumOver(games[i].players, "turns") \div 2 < -21
     \/ SumOver(games[i].players, "actions") \div 20 < -12

\* get_bucket(actions) of a truthy value that is not a number
action_winrates_raises(games) ==
  \E i \in 1..Len(games) : \E j \in 1..Len(games[i].players) :
     LET p == games[i].players[j]
     IN p.commander # "" /\ Truthy(p.actions) /\ ~IsNumber(p.actions)

(***************************************************************************)
(* build_and_write_all over the 4 periods x 4 maps.  The operator          *)
(* build_and_write_all above is the body of the loops for one slice.       *)
(***************************************************************************)
OutKeys ==
  {"metadata", "commander_stats", "matchups", "matchup_details", "card_stats", "distributions",
   "deck_comp", "trends", "first_turn", "cmd_trends", "cmd_wr_trends", "duration_wr", "action_wr",
   "turn_wr", "cmd_card_stats"}

RECURSIVE unique_players(_)
unique_players(games) ==
  IF Len(games) = 0 THEN {}
  ELSE {games[1].players[j].name : j \in 1..Len(games[1].players)}
         \cup unique_players(Tail(games))

\* does the aggregator behind `key` raise on the slice
KeyRaises(key, map_games) ==
  CASE key = "card_stats" -> card_stats_raises(map_games)
    [] key = "distributions" -> distributions_raises(map_games)
    [] key = "action_wr" -> action_winrates_raises(map_games)
    [] key = "deck_comp" -> deck_composition_raises(map_games)
    [] key = "cmd_card_stats" -> commander_card_stats_raises(map_games)
    [] OTHER -> FALSE

slice_raises(map_games) == \E key \in OutKeys : KeyRaises(key, map_games)

\* the value stored under out[key][period_key][map_name]
KeyValue(key, map_games, clock) ==
  LET value(c) ==
        CASE key = "metadata" ->
               [last_updated |-> clock, total_matches |-> Len(map_games),
                total_players |-> Cardinality(unique_players(map_games))]
          [] key = "commander_stats" -> c.commander_stats
          [] key = "matchups" -> c.matchups
          [] key = "matchup_details" -> aggregate_matchup_details(map_games)
          [] key = "card_stats" -> c.card_stats
          [] key = "distributions" -> aggregate_game_distributions(map_games)
          [] key = "deck_comp" -> aggregate_deck_composition(map_games)
          [] key = "cmd_card_stats" -> aggregate_commander_card_stats(map_games)
          [] key = "first_turn" -> c.first_turn
          [] key = "trends" -> faction_trends(map_games)
          [] key = "cmd_trends" -> aggregate_commander_trends(map_games)
          [] key = "cmd_wr_trends" -> aggregate_commander_winrate_trends(map_games)
          [] key = "duration_wr" -> c.duration_wr
          [] key = "action_wr" -> c.action_wr
          [] key = "turn_wr" -> c.turn_wr
  IN value(build_and_write_all(map_games))

slice_of(games, period_key, map_name, clock) ==
  filter_games_by_map(filter_games_by_period(games, PERIODS[period_key], clock), map_name)

\* variant: a slice with no games is skipped
map_step_skip_empty(o, period_key, map_name, map_games, clock) ==
  IF Len(map_games) = 0 THEN o
  ELSE [key \in OutKeys |->
          [o[key] EXCEPT ![period_key] = DPut(@, map_name, KeyValue(key, map_games, clock))]]

\* the body of `for map_name in MAPS`: every key gets its entry for the cell
map_step(o, period_key, map_name, map_games, clock) ==
  [key \in OutKeys |->
     [o[key] EXCEPT ![period_key] = DPut(@, map_name, KeyValue(key, map_games, clock))]]

RECURSIVE map_loop(_, _, _, _, _)
map_loop(o, period_key, period_games, clock, i) ==
  IF i > Len(MAPS) THEN o
  ELSE map_loop(map_step(o, period_key, MAPS[i],
                         filter_games_by_map(period_games, MAPS[i]), clock),
                period_key, period_games, clock, i + 1)

\* the body of `for period_key, days in PERIODS.items()`
RECURSIVE period_loop(_, _, _, _)
period_loop(o, games, clock, j) ==
  IF j > Len(PeriodKeys) THEN o
  ELSE LET period_key == PeriodKeys[j]
           period_games == filter_games_by_period(games, PERIODS[period_key], clock)
           opened == [key \in OutKeys |-> DPut(o[key], period_key, EmptyDict)]
       IN period_loop(map_loop(opened, period_key, period_games, clock, 1),
                      games, clock, j + 1)

\* the nested `out` handed to write_json, file by file
write_all(games, clock) ==
  period_loop([key \in OutKeys |-> EmptyDict], games, clock, 1)

\* an aggregator raises in some slice: build_and_write_all is left before
\* any of the statistics files is written
write_all_raises(games, clock) ==
  \E j \in 1..Len(PeriodKeys), i \in 1..Len(MAPS) :
     slice_raises(slice_of(games, PeriodKeys[j], MAPS[i], clock))

(***************************************************************************)
(* main(): one run scans one new raw item, cleans it, merges it into the   *)
(* cached games and rebuilds the aggregates                                *)
(***************************************************************************)
NoItem ==
  [gameid |-> <<>>, firstPlayer |-> VMissing,
   datetime |-> [t |-> "missing", fmt |-> "empty", n |-> 0],
   datetimeStarted |-> [t |-> "missing", fmt |-> "empty", n |-> 0],
   map |-> "", format |-> "",
   players |-> [enc |-> "missing", top |-> "dict", numPlayers |-> VMissing,
                players |-> [t |-> "missing", n |-> 0, items |-> <<>>]]]

NotCleaned == [kind |-> "pending", exc |-> "", game |-> NoGame]

\* the clock readings of the runs
Epoch == 400 * Day

ClockReadings == {Epoch, Epoch + 31 * Day}

cached_ids == {all_games[i].game_id : i \in 1..Len(all_games)}

\* load_cache + scan_all_games: an item whose gameid is cached is skipped
Fetch(r) ==
  /\ pc = "idle"
  /\ Len(all_games) < MaxGames
  /\ r.gameid \notin cached_ids
  /\ raw_items' = <<r>>
  /\ raw_item' = r
  /\ cleaned' = NotCleaned
  /\ pc' = "fetched"
  /\ UNCHANGED <<all_games, out, now, site, scan>>

\* scan_all_games: the items of the table whose gameid is not cached
scan_all_games(table, cached_game_ids) ==
  SelectSeq(table, LAMBDA item : item.gameid \notin cached_game_ids)

\* one step of `for item in raw_items`: an accepted Game is appended to
\* new_games, a rejected record is skipped, an exception ends the loop
clean_step(acc, item) ==
  IF acc.raised THEN acc
  ELSE LET c == clean_game(item)
       IN [raised |-> c.kind = "raise", item |-> item, last |-> c,
           new_games |-> IF c.kind = "game" THEN Append(acc.new_games, c.game)
                         ELSE acc.new_games]

clean_all(items) ==
  FoldLeft(clean_step,
           [raised |-> FALSE, item |-> raw_item, last |-> NotCleaned, new_games |-> <<>>],
           items)

\* load_cache + scan_all_games over the whole table
ScanAll(table) ==
  /\ pc = "idle"
  /\ raw_items' = scan_all_games(table, cached_ids)
  /\ Len(all_games) + Len(raw_items') <= MaxGames
  /\ cleaned' = NotCleaned
  /\ pc' = "scanned"
  /\ UNCHANGED <<raw_item, all_games, out, now, site, scan>>

\* the cleaning loop over the scanned items, all_games = cached_games +
\* new_games and save_cache
CleanAll ==
  /\ pc = "scanned"
  /\ LET r == clean_all(raw_items)
     IN /\ raw_item' = r.item
        /\ cleaned' = r.last
        /\ IF r.raised
           THEN pc' = "aborted" /\ UNCHANGED all_games
           ELSE pc' = "cleaned" /\ all_games' = all_games \o r.new_games
  /\ UNCHANGED <<out, now, site, raw_items, scan>>

\* main() with --skip-fetch: the cached games are aggregated again, nothing
\* is scanned, cleaned or saved
SkipFetch ==
  /\ pc = "idle"
  /\ cleaned' = NotCleaned
  /\ pc' = "cleaned"
  /\ UNCHANGED <<raw_item, all_games, out, now, site, raw_items, scan>>

\* the cleaning loop, the merge with the cache and save_cache; an exception
\* of clean_game leaves main before anything is merged or saved
Clean ==
  /\ pc = "fetched"
  /\ cleaned' = clean_game(raw_item)
  /\ IF cleaned'.kind = "raise"
     THEN pc' = "aborted" /\ UNCHANGED all_games
     ELSE /\ pc' = "cleaned"
          /\ all_games' = IF cleaned'.kind = "game"
                          THEN Append(all_games, cleaned'.game) ELSE all_games
  /\ UNCHANGED <<raw_item, out, now, site, raw_items, scan>>

\* build_and_write_all: an exception of an aggregator leaves main with the
\* statistics files as they were
Aggregate ==
  /\ pc = "cleaned"
  /\ IF write_all_raises(all_games, now)
     THEN pc' = "failed" /\ UNCHANGED <<out, site>>
     ELSE /\ out' = build_and_write_all(all_games)
          /\ site' = write_all(all_games, now)
          /\ pc' = "idle"
  /\ UNCHANGED <<raw_item, cleaned, all_games, now, raw_items, scan>>

\* time passes between two runs
Tick ==
  /\ pc = "idle"
  /\ \E t \in ClockReadings : t > now /\ now' = t
  /\ UNCHANGED <<raw_item, cleaned, all_games, out, site, pc, raw_items, scan>>

(***************************************************************************)
(* Raw records enumerated as inputs                                        *)
(***************************************************************************)
DtMissing == [t |-> "missing", fmt |-> "empty", n |-> 0]

DtAt(secs) == [t |-> "str", fmt |-> "ok", n |-> secs]

Card(name) == [CardName |-> name, Count |-> VInt(1)]

\* an entry holding two copies, the count arriving as a string
Card2(name) == [CardName |-> name, Count |-> VStr(<<"2">>)]

RawPlayer(name, commander, winner, turns, actions, deck, drawn, played) ==
  [t |-> "dict", name |-> name, turnsTaken |-> turns, actionsTaken |-> actions,
   winner |-> winner,
   decklist |-> [t |-> "dict", commander |-> commander, name |-> "deck", cards |-> deck],
   cardsDrawn |-> drawn, cardsPlayed |-> played]

\* a players entry that is not an object (a JSON string)
NotAPlayer ==
  [t |-> "str", name |-> "", turnsTaken |-> VMissing, actionsTaken |-> VMissing,
   winner |-> VMissing,
   decklist |-> [t |-> "missing", commander |-> "", name |-> "", cards |-> <<>>],
   cardsDrawn |-> <<>>, cardsPlayed |-> <<>>]

PlayerList(items) == [t |-> "list", n |-> Len(items), items |-> items]

Payload(numPlayers, players) ==
  [enc |-> "json", top |-> "dict", numPlayers |-> numPlayers, players |-> players]

RawItem(id, firstPlayer, started, ended, payload) ==
  [gameid |-> NatToStr(id), firstPlayer |-> firstPlayer, datetime |-> ended,
   datetimeStarted |-> started, map |-> "Dunes", format |-> "Standard",
   players |-> payload]

\* a plain two-player record: commanders c1 / c2, winners w1 / w2
Duel(id, firstPlayer, c1, w1, c2, w2) ==
  RawItem(id, firstPlayer, DtAt(0), DtAt(1200),
          Payload(VInt(2),
                  PlayerList(<<RawPlayer("Alice", c1, VBool(w1), VInt(5), VInt(40), <<>>, <<>>, <<>>),
                               RawPlayer("Bob", c2, VBool(w2), VInt(5), VInt(35), <<>>, <<>>, <<>>)>>)))

\* the same with a third player
Melee(id, firstPlayer, c1, w1, c2, w2, c3) ==
  RawItem(id, firstPlayer, DtAt(0), DtAt(1200),
          Payload(VInt(3),
                  PlayerList(<<RawPlayer("Alice", c1, VBool(w1), VInt(5), VInt(40), <<>>, <<>>, <<>>),
                               RawPlayer("Bob", c2, VBool(w2), VInt(5), VInt(35), <<>>, <<>>, <<>>),
                               RawPlayer("Charlie", c3, VBool(FALSE), VInt(5), VInt(30), <<>>, <<>>, <<>>)>>)))

NextId == Len(all_games) + 1

\* inputs of the matchup / commander-stats runs
MatchupInputs(id) ==
  {Duel(id, VStr(<<"1">>), c1, w, c2, ~w) :
     c1 \in {"Alpha", "Beta", ""}, c2 \in {"Alpha", "Beta"}, w \in BOOLEAN}
  \cup {Duel(id, VStr(<<"1">>), "Alpha", FALSE, "Beta", FALSE),
        Duel(id, VStr(<<"1">>), "Alpha", TRUE, "Beta", TRUE),
        Duel(id, VStr(<<"1">>), "Alpha", TRUE, "Alpha", TRUE),
        Duel(id, VStr(<<"1">>), "Elber, Jungle Emmisary", TRUE, "Elber, Jungle Emissary", FALSE),
        Melee(id, VStr(<<"1">>), "Alpha", TRUE, "Beta", FALSE, "Alpha")}

\* inputs of the first-turn runs
FirstTurnInputs(id) ==
  {Duel(id, fp, c[1], w, c[2], ~w) :
     fp \in {VStr(<<"1">>), VInt(2), VStr(<<"9", "9">>)},
     c \in {<<"Alpha", "Beta">>, <<"Alpha", "Alpha">>, <<"", "Alpha">>},
     w \in BOOLEAN}
  \cup {Melee(id, fp, "Alpha", TRUE, "Beta", FALSE, "Alpha") : fp \in {VInt(1), VInt(99)}}

\* inputs of the bucketed-winrate runs: durations, actions and turns on
\* both sides of every bucket boundary
BucketInputs(id) ==
  {RawItem(id, VStr(<<"1">>), started, DtAt(1800),
           Payload(VInt(2),
                   PlayerList(<<RawPlayer("Alice", "Alpha", VBool(TRUE), VInt(5), VInt(40), <<>>, <<>>, <<>>),
                                RawPlayer("Bob", c2, VBool(FALSE), VInt(5), VInt(35), <<>>, <<>>, <<>>)>>))) :
     started \in {DtMissing, DtAt(1800), DtAt(1206), DtAt(1200), DtAt(600), DtAt(0)},
     c2 \in {"Alpha", ""}}
  \cup
  {RawItem(id, VStr(<<"1">>), DtAt(0), DtAt(1200),
           Payload(VInt(2),
                   PlayerList(<<RawPlayer("Alice", "Alpha", VBool(w), ta[1], ta[2], <<>>, <<>>, <<>>),
                                RawPlayer("Bob", "Beta", VBool(~w), VInt(8), VInt(0), <<>>, <<>>, <<>>)>>))) :
     ta \in {<<VInt(2), VInt(29)>>, <<VInt(4), VInt(30)>>, <<VStr(<<"5">>), VInt(59)>>,
             <<VInt(7), VStr(<<"6", "0">>)>>, <<VInt(10), VInt(89)>>, <<VInt(11), VInt(90)>>,
             <<VInt(13), VInt(119)>>, <<VInt(14), VInt(120)>>, <<VInt(3), VMissing>>},
     w \in {TRUE}}

\* inputs of the card-stats runs: the first player's deck, drawn and played lists
CardInputs(id) ==
  {RawItem(id, VStr(<<"1">>), DtAt(0), DtAt(1200),
           Payload(VInt(2),
                   PlayerList(<<RawPlayer("Alice", "Alpha", VBool(TRUE), VInt(5), VInt(40),
                                          l[1], l[2], l[3]),
                                RawPlayer("Bob", "Beta", VBool(FALSE), VInt(5), VInt(35),
                                          <<Card("Heal")>>, <<Card("Heal")>>, <<>>)>>))) :
     l \in {<<Card2("Fire Bolt"), Card("Heal")>>, <<Card("Fire Bolt")>>}
           \X {<<>>, <<Card2("Fire Bolt")>>, <<Card("Fire Bolt"), Card("Heal")>>,
               <<Card("Fire Bolt"), Card("Fire Bolt")>>}
           \X {<<>>, <<Card("Fire Bolt")>>, <<Card("Heal")>>}}

\* inputs of the period / map runs: end timestamps on both sides of every
\* window of both clock readings, after the clock, absent and unparseable
PeriodInputs(id) ==
  {[Duel(id, VStr(<<"1">>), "Alpha", TRUE, "Beta", FALSE) EXCEPT
      !.datetimeStarted = DtMissing, !.datetime = en] :
     en \in {DtAt(Epoch - d) : d \in {180 * Day + 1, 180 * Day, 90 * Day, 30 * Day, 0}}
           \cup {DtAt(Epoch + Day), DtMissing,
                 [t |-> "str", fmt |-> "bad", n |-> Epoch]}}
  \cup
  {[Duel(id, VStr(<<"1">>), "Alpha", FALSE, "Alpha", TRUE) EXCEPT
      !.datetime = DtAt(Epoch - 30 * Day), !.map = mp] :
     mp \in {"Snowmelt", ""}}

\* eleven cards in two orders (one more than a top list holds)
Hand == [i \in 1..11 |-> Card(<<"C01", "C02", "C03", "C04", "C05", "C06", "C07", "C08", "C09",
                                 "C10", "C11">>[i])]

HandRotated == <<Hand[11]>> \o SubSeq(Hand, 1, 10)

\* a list naming one card three times and another four times
Repeats == <<Card("C01"), Card("C01"), Card("C01"), Card("C02"), Card("C02"), Card("C02"),
             Card("C02")>>

\* inputs of the matchup-detail runs: mirror games whose players play the
\* eleven cards once in either order or twice, or where only the winner
\* plays the eleventh, games with repeated cards won by either side, by both
\* and by neither, and a three-player game
DetailInputs(id) ==
  {RawItem(id, VStr(<<"1">>), DtAt(0), DtAt(1200),
           Payload(VInt(2),
                   PlayerList(<<RawPlayer("Alice", "Alpha", VBool(TRUE), VInt(5), VInt(40), <<>>, <<>>, h[1]),
                                RawPlayer("Bob", "Alpha", VBool(FALSE), VInt(5), VInt(35), <<>>, <<>>, h[2])>>))) :
     h \in {<<Hand, Hand>>, <<HandRotated, HandRotated>>, <<Hand \o Hand, Hand \o Hand>>,
            <<<<Hand[11]>>, <<>>>>}}
  \cup
  {RawItem(id, fp, DtAt(0), DtAt(1200),
           Payload(VInt(2),
                   PlayerList(<<RawPlayer("Alice", "Alpha", VBool(w[1]), VInt(5), VInt(40),
                                          <<Card("C01"), Card2("C02"), Card("C04")>>,
                                          <<Card("C01")>>, Repeats),
                                RawPlayer("Bob", "Beta", VBool(w[2]), VInt(5), VInt(35),
                                          <<>>, <<>>, <<Card("C02"), Card("C03")>>)>>))) :
     w \in {<<TRUE, FALSE>>, <<FALSE, TRUE>>, <<TRUE, TRUE>>, <<FALSE, FALSE>>},
     fp \in {VStr(<<"2">>)}}
  \cup {Melee(id, VStr(<<"1">>), "Alpha", TRUE, "Beta", FALSE, "Alpha")}

\* the records a table can hold: a gameid or none, accepted by the cleaner
\* (either player winning) or rejected for a player below MIN_TURNS
RunItems ==
  {[Duel(1, VStr(<<"1">>), "Alpha", w, "Beta", ~w) EXCEPT !.gameid = gid] :
     gid \in {<<"1">>, <<"2">>, <<>>}, w \in BOOLEAN}
  \cup
  {[Duel(1, VStr(<<"1">>), "Alpha", TRUE, "Beta", FALSE) EXCEPT
      !.gameid = gid,
      !.players = Payload(VInt(2),
                    PlayerList(<<RawPlayer("Alice", "Alpha", VBool(TRUE), VInt(1), VInt(40), <<>>, <<>>, <<>>),
                                 RawPlayer("Bob", "Beta", VBool(FALSE), VInt(5), VInt(35), <<>>, <<>>, <<>>)>>))] :
     gid \in {<<"1">>, <<"2">>, <<>>}}

\* largest number of items of one scan
MaxScan == 2

\* the tables scanned: the gameid of a record that has one is the key of its
\* item
Tables ==
  {t \in UNION {[1..n -> RunItems] : n \in 1..MaxScan} :
     \A i, j \in DOMAIN t : (i # j /\ t[i].gameid # <<>>) => t[i].gameid # t[j].gameid}

\* the games a trend run can hold
MaxTrendGames == 8

\* n records of one kind ended at the same instant, numbered from `first`
TrendBlock(first, n, ended, kind) ==
  [k \in 1..n |->
     [(CASE kind = "duel" -> Duel(first + k - 1, VStr(<<"1">>), "Alpha", k % 2 = 1, "Beta", k % 2 = 0)
         [] kind = "mirror" -> Duel(first + k - 1, VStr(<<"1">>), "Alpha", TRUE, "Alpha", FALSE)
         [] kind = "melee" -> Melee(first + k - 1, VStr(<<"1">>), "Alpha", TRUE, "Beta", FALSE, "Alpha"))
      EXCEPT !.datetime = ended]]

\* tables of the trend runs: two or four games of a week of the first year
\* or of a week of the second year, or one game without a date
TrendTables(first) ==
  {TrendBlock(first, 2, DtAt(360 * Day), "duel"),
   TrendBlock(first, 4, DtAt(360 * Day), "duel"),
   TrendBlock(first, 2, DtAt(380 * Day), "melee"),
   TrendBlock(first, 4, DtAt(380 * Day), "mirror"),
   TrendBlock(first, 1, DtMissing, "duel")}

\* load_cache + scan_all_games over a table of a trend run
ScanWeeks(table) ==
  /\ pc = "idle"
  /\ raw_items' = scan_all_games(table, cached_ids)
  /\ Len(all_games) + Len(raw_items') <= MaxTrendGames
  /\ cleaned' = NotCleaned
  /\ pc' = "scanned"
  /\ UNCHANGED <<raw_item, all_games, out, now, site, scan>>

(***************************************************************************)
(* scan_all_games page by page.  The table is the sequence of the pages    *)
(* the store returns; a request with ExclusiveStartKey k is answered with  *)
(* page k + 1, which carries LastEvaluatedKey k + 1 unless it is the last. *)
(***************************************************************************)
\* the throttling errors of one scan
MaxThrottles == 2

\* table.scan(**scan_kwargs) when it answers
scan_response(pages, start) ==
  [Items |-> pages[start + 1],
   LastEvaluatedKey |-> IF start + 1 < Len(pages) THEN Some(start + 1) ELSE NoOpt]

\* items.append(item) for the items of the page whose gameid is not cached
append_new(items, page_items, cached_game_ids) ==
  items \o SelectSeq(page_items, LAMBDA item : item.gameid \notin cached_game_ids)

RECURSIVE Flatten(_)
Flatten(pages) == IF Len(pages) = 0 THEN <<>> ELSE pages[1] \o Flatten(Tail(pages))

\* load_cache and the first lines of scan_all_games
ScanBegin(pages) ==
  /\ pc = "idle"
  /\ Len(all_games) + Len(append_new(<<>>, Flatten(pages), cached_ids)) <= MaxGames
  /\ scan' = [pages |-> pages, start |-> 0, page |-> 0, items |-> <<>>, throttled |-> 0, wait |-> 0]
  /\ cleaned' = NotCleaned
  /\ pc' = "scanning"
  /\ UNCHANGED <<raw_item, all_games, out, now, site, raw_items>>

\* variant: the retry asks for the page after the one that was throttled
ScanThrottledAdvancing ==
  /\ pc = "scanning"
  /\ scan.throttled < MaxThrottles
  /\ scan.start + 1 < Len(scan.pages)
  /\ scan' = [scan EXCEPT !.page = @ + 1, !.throttled = @ + 1, !.start = @ + 1,
                          !.wait = Min(2 ^ (scan.page + 1), 30)]
  /\ UNCHANGED <<raw_item, cleaned, all_games, out, pc, now, site, raw_items>>

\* table.scan raises a throttling error: wait and `continue`
ScanThrottled ==
  /\ pc = "scanning"
  /\ scan.throttled < MaxThrottles
  /\ scan' = [scan EXCEPT !.page = @ + 1, !.throttled = @ + 1,
                          !.wait = Min(2 ^ (scan.page + 1), 30)]
  /\ UNCHANGED <<raw_item, cleaned, all_games, out, pc, now, site, raw_items>>

\* table.scan raises another error: it leaves scan_all_games and main
ScanRaises ==
  /\ pc = "scanning"
  /\ pc' = "scan_raised"
  /\ scan' = [scan EXCEPT !.page = @ + 1]
  /\ UNCHANGED <<raw_item, cleaned, all_games, out, now, site, raw_items>>

\* table.scan answers: the new items are appended, then the next request
\* starts after LastEvaluatedKey, or the items are returned
ScanPage ==
  /\ pc = "scanning"
  /\ LET response == scan_response(scan.pages, scan.start)
         items == append_new(scan.items, response.Items, cached_ids)
     IN IF response.LastEvaluatedKey.some
        THEN /\ scan' = [scan EXCEPT !.page = @ + 1, !.items = items,
                                     !.start = response.LastEvaluatedKey.n]
             /\ UNCHANGED <<pc, raw_items>>
        ELSE /\ scan' = [scan EXCEPT !.page = @ + 1, !.items = items]
             /\ raw_items' = items
             /\ pc' = "scanned"
  /\ UNCHANGED <<raw_item, cleaned, all_games, out, now, site>>

\* the tables of the paged scans: one to three pages, an empty page
\* included, over three records
ScanTables ==
  LET record(k) == Duel(k, VStr(<<"1">>), "Alpha", TRUE, "Beta", FALSE)
  IN {<<<<record(1)>>, <<record(2)>>>>,
      <<<<record(1), record(2)>>>>,
      <<<<>>, <<record(2)>>, <<record(1)>>>>,
      <<<<record(1)>>, <<>>>>,
      <<<<record(3)>>, <<record(1)>>, <<>>>>}

(***************************************************************************)
(* Specifications                                                          *)
(***************************************************************************)
\* no paged scan has begun
NoScan == [pages |-> <<>>, start |-> 0, page |-> 0, items |-> <<>>, throttled |-> 0, wait |-> 0]

InitEmpty ==
  /\ raw_item = NoItem
  /\ cleaned = NotCleaned
  /\ all_games = <<>>
  /\ out = build_and_write_all(<<>>)
  /\ pc = "idle"
  /\ now = Epoch
  /\ site = write_all(<<>>, Epoch)
  /\ raw_items = <<>>
  /\ scan = NoScan

FetchMatchup == \E r \in MatchupInputs(NextId) : Fetch(r)

FetchFirstTurn == \E r \in FirstTurnInputs(NextId) : Fetch(r)

FetchBucket == \E r \in BucketInputs(NextId) : Fetch(r)

FetchCard == \E r \in CardInputs(NextId) : Fetch(r)

FetchPeriod == \E r \in PeriodInputs(NextId) : Fetch(r)

FetchRun == \E table \in Tables : ScanAll(table)

FetchWeeks == \E table \in TrendTables(NextId) : ScanWeeks(table)

FetchPages == \E pages \in ScanTables : ScanBegin(pages)

NextScan == FetchPages \/ ScanThrottled \/ ScanRaises \/ ScanPage \/ CleanAll \/ Aggregate

SpecScan == InitEmpty /\ [][NextScan]_vars

\* the store answers in the end: a request that can be answered is not
\* throttled for ever
SpecScanFair == SpecScan /\ WF_vars(ScanPage)

NextTrends == FetchWeeks \/ CleanAll \/ Aggregate

SpecTrends == InitEmpty /\ [][NextTrends]_vars

NextRuns == FetchRun \/ CleanAll \/ Aggregate

SpecRuns == InitEmpty /\ [][NextRuns]_vars

FetchDetail == \E r \in DetailInputs(NextId) : Fetch(r)

NextDetails == FetchDetail \/ Clean \/ Aggregate

SpecDetails == InitEmpty /\ [][NextDetails]_vars

NextPeriods == FetchPeriod \/ SkipFetch \/ Clean \/ Aggregate \/ Tick

NextMatchups == FetchMatchup \/ Clean \/ Aggregate

NextFirstTurn == FetchFirstTurn \/ Clean \/ Aggregate

NextBuckets == FetchBucket \/ Clean \/ Aggregate

NextCards == FetchCard \/ Clean \/ Aggregate

Next == NextMatchups

Spec == InitEmpty /\ [][Next]_vars

SpecFirstTurn == InitEmpty /\ [][NextFirstTurn]_vars

SpecBuckets == InitEmpty /\ [][NextBuckets]_vars

SpecCards == InitEmpty /\ [][NextCards]_vars

SpecPeriods == InitEmpty /\ [][NextPeriods]_vars

(***************************************************************************)
(* The cleaner on loosely typed records: one field of a plain two-player   *)
(* record is varied at a time, under every firstPlayer form                *)
(***************************************************************************)
Alice ==
  RawPlayer("Alice", "Alpha", VBool(TRUE), VInt(5), VInt(40),
            <<Card2("Fire Bolt")>>, <<Card("Fire Bolt")>>, <<Card("Fire Bolt")>>)

Bob ==
  RawPlayer("Bob", "Elber, Jungle Emmisary", VBool(FALSE), VInt(5), VInt(35),
            <<Card("Heal")>>, <<Card("Heal")>>, <<>>)

Charlie ==
  RawPlayer("Charlie", "Beta", VBool(FALSE), VInt(5), VInt(30), <<>>, <<>>, <<>>)

PlainPayload == Payload(VInt(2), PlayerList(<<Alice, Bob>>))

FirstPlayerValues ==
  {VMissing, VNull, VBool(TRUE), VStr(<<>>),
   VStr(<<"0">>), VStr(<<"1">>), VStr(<<"2">>), VStr(<<"9", "9">>),
   VInt(0), VInt(1), VInt(2), VInt(3), VInt(99)}

NumPlayersValues ==
  {VMissing, VNull, VBool(TRUE), VList, VInt(0), VInt(1), VInt(3),
   VStr(<<"1">>), VStr(<<"2">>), VStr(<<"a", "b", "c">>)}

TurnsValues ==
  {VMissing, VNull, VList, VBool(TRUE), VStr(<<"1">>), VStr(<<"2">>), VStr(<<"7">>),
   VStr(<<"a", "b", "c">>)}
  \cup {VInt(i) : i \in 0..MaxRawTurns}

ActionsValues ==
  {VMissing, VNull, VBool(TRUE), VInt(-1), VInt(0), VStr(<<"4", "2">>),
   VStr(<<"a", "b", "c">>), VStr(<<"-", "1">>)}

WinnerValues ==
  {VMissing, VNull, VBool(FALSE), VInt(0), VInt(1), VStr(<<>>),
   VStr(<<"t", "r", "u", "e">>), VStr(<<"T", "r", "u", "e">>), VStr(<<"T", "R", "U", "E">>),
   VStr(<<"f", "a", "l", "s", "e">>), VStr(<<"1">>), VStr(<<"0">>)}

PlayersContainers ==
  {[t |-> "missing", n |-> 0, items |-> <<>>],
   [t |-> "null", n |-> 0, items |-> <<>>],
   [t |-> "int", n |-> 2, items |-> <<>>],
   [t |-> "str", n |-> 2, items |-> <<>>],
   [t |-> "dict", n |-> 2, items |-> <<>>],
   PlayerList(<<>>), PlayerList(<<Alice>>), PlayerList(<<Alice, Bob, Charlie>>),
   PlayerList(<<NotAPlayer, Bob>>), PlayerList(<<Alice, NotAPlayer>>),
   PlayerList(<<[Alice EXCEPT !.turnsTaken = VInt(1)], NotAPlayer>>)}

\* the Count of a card entry, of every type JSON can carry
CountValues ==
  {VMissing, VNull, VInt(-1), VInt(0), VInt(3), VStr(<<"0">>), VStr(<<"3">>),
   VStr(<<"a", "b", "c">>)}

\* the first player's deck and drawn lists holding one entry of each name / Count
CardEntryVariants ==
  {Payload(VInt(2),
           PlayerList(<<[Alice EXCEPT !.decklist.cards = <<[CardName |-> nm, Count |-> v]>>,
                                      !.cardsDrawn = <<Card("Heal"), [CardName |-> nm, Count |-> v]>>],
                        Bob>>)) :
     nm \in {"Fire Bolt", ""}, v \in CountValues}

PayloadVariants ==
  {[PlainPayload EXCEPT !.enc = e] :
     e \in {"missing", "null", "empty", "garbage", "json", "doubled", "native"}}
  \cup {[PlainPayload EXCEPT !.top = tp] :
          tp \in {"emptydict", "list", "emptylist", "int", "zero", "jsonnull", "str"}}
  \cup {[PlainPayload EXCEPT !.numPlayers = v] : v \in NumPlayersValues}
  \cup {[PlainPayload EXCEPT !.players = c] : c \in PlayersContainers}
  \cup {Payload(VInt(3), PlayerList(<<Alice, Bob, Charlie>>))}
  \cup {Payload(VInt(2), PlayerList(<<[Alice EXCEPT !.turnsTaken = v], Bob>>)) : v \in TurnsValues}
  \cup {Payload(VInt(2), PlayerList(<<Alice, [Bob EXCEPT !.turnsTaken = v]>>)) : v \in TurnsValues}
  \cup {Payload(VInt(2), PlayerList(<<[Alice EXCEPT !.actionsTaken = v], Bob>>)) : v \in ActionsValues}
  \cup {Payload(VInt(2), PlayerList(<<[Alice EXCEPT !.winner = v], Bob>>)) : v \in WinnerValues}
  \cup {Payload(VInt(2), PlayerList(<<Alice, [Bob EXCEPT !.decklist.t = dt]>>)) :
          dt \in {"missing", "null"}}
  \cup CardEntryVariants

\* start / end timestamps around equality, below a tenth of a minute and
\* off the tenths, and timestamps that are absent or do not parse
DurationInputs ==
  {RawItem(1, VInt(1), st, en, PlainPayload) :
     st \in {DtAt(60), DtMissing, [t |-> "str", fmt |-> "bad", n |-> 0]},
     en \in {DtAt(e) : e \in {0, 59, 60, 61, 62, 63, 69, 75, 87, 90, 105, 160, 1260}}
           \cup {DtMissing, [t |-> "null", fmt |-> "empty", n |-> 0],
                 [t |-> "str", fmt |-> "bad", n |-> 60]}}

CleanInputs ==
  {RawItem(1, fp, DtAt(0), DtAt(1200), pl) : fp \in FirstPlayerValues, pl \in PayloadVariants}
  \cup {RawItem(1, VInt(1), st, DtAt(1200), PlainPayload) :
          st \in {DtMissing, [t |-> "null", fmt |-> "empty", n |-> 0],
                  [t |-> "str", fmt |-> "bad", n |-> 0], [t |-> "str", fmt |-> "empty", n |-> 0],
                  [t |-> "int", fmt |-> "empty", n |-> 1200], DtAt(1200), DtAt(1800)}}
  \cup DurationInputs

InitClean ==
  /\ raw_item \in CleanInputs
  /\ cleaned = NotCleaned
  /\ all_games = <<>>
  /\ out = build_and_write_all(<<>>)
  /\ pc = "fetched"
  /\ now = Epoch
  /\ site = write_all(<<>>, Epoch)
  /\ raw_items = <<raw_item>>
  /\ scan = NoScan

NextClean == Clean \/ Aggregate

SpecClean == InitClean /\ [][NextClean]_vars

(***************************************************************************)
(* The normalisers on their own: raw_item holds the two names handed to    *)
(* normalize_commander and normalize_card, cleaned the two results         *)
(***************************************************************************)
NameInputs ==
  {NoName} \cup
  {Name(n) : n \in {"", "Elber, Jungle Emmisary", "Layna, Soulcatcher",
                    "Lyre, Tactician of the Order", "Elber, Jungle Emissary",
                    "Soultaker Viessa", "Elyse of the Order",
                    "elber, jungle emmisary", "LAYNA, SOULCATCHER",
                    "New Commander", "Fire Bolt"}}

InitNormalize ==
  /\ raw_item \in [commander : NameInputs, card : NameInputs]
  /\ cleaned = NotCleaned
  /\ all_games = <<>>
  /\ out = build_and_write_all(<<>>)
  /\ pc = "idle"
  /\ now = Epoch
  /\ site = write_all(<<>>, Epoch)
  /\ raw_items = <<>>
  /\ scan = NoScan

Normalize ==
  /\ pc = "idle"
  /\ cleaned' = [commander |-> normalize_commander_value(raw_item.commander),
                 card |-> normalize_card_value(raw_item.card)]
  /\ pc' = "normalized"
  /\ UNCHANGED <<raw_item, all_games, out, now, site, raw_items, scan>>

NextNormalize == Normalize

SpecNormalize == InitNormalize /\ [][NextNormalize]_vars

(***************************************************************************)
(* Properties                                                              *)
(***************************************************************************)
CommanderNames ==
  {"", "Alpha", "Beta", "Elber, Jungle Emmisary", "Elber, Jungle Emissary"}

\* the player-appearances of the collection, as (game index, player index)
Slots ==
  {sl \in (1..Len(all_games)) \X (1..3) : sl[2] <= Len(all_games[sl[1]].players)}

PlayerAt(sl) == all_games[sl[1]].players[sl[2]]

GameAt(sl) == all_games[sl[1]]

AppearancesOf(c) == {sl \in Slots : PlayerAt(sl).commander = c}

RECURSIVE SumGames(_)
SumGames(buckets) ==
  IF Len(buckets) = 0 THEN 0 ELSE Head(buckets).games + SumGames(Tail(buckets))

\* C1: for every ordered pair of commanders (A, B), A = B included, the
\* wins of A against B are the losses of B against A, so both directions of
\* a pairing have the same total; the emitted matchup entries agree.
MatchupSymmetry ==
  LET m == aggregate_matchups(all_games)
  IN /\ \A A \in CommanderNames, B \in CommanderNames :
          LET ab == DGet(m, <<A, B>>, ZeroMatchup)
              ba == DGet(m, <<B, A>>, ZeroMatchup)
          IN /\ ab.wins = ba.losses
             /\ ab.wins + ab.losses = ba.wins + ba.losses
     /\ pc = "idle" =>
          \A k \in DOMAIN out.matchups :
             /\ <<k[2], k[1]>> \in DOMAIN out.matchups
             /\ out.matchups[k].wins = out.matchups[<<k[2], k[1]>>].losses
             /\ out.matchups[k].total = out.matchups[<<k[2], k[1]>>].total

MatchupSymmetryWitness ==
  LET m == aggregate_matchups(all_games)
  IN /\ pc = "idle"
     /\ DGet(m, <<"Alpha", "Beta">>, ZeroMatchup).wins >= 1
     /\ DGet(m, <<"Alpha", "Alpha">>, ZeroMatchup).wins >= 1

\* C5: for every commander c of the commander-stats result, matches(c) is
\* the number of player-appearances of c, wins(c) the number of those that
\* won, 0 <= wins(c) <= matches(c), matches(c) >= 1, and the emitted
\* winrate lies in [0, 1].
CommanderStatsCount ==
  LET st == aggregate_commander_stats(all_games)
  IN /\ \A c \in DOMAIN st :
          /\ st[c].matches = Cardinality(AppearancesOf(c))
          /\ st[c].wins = Cardinality({sl \in AppearancesOf(c) : PlayerAt(sl).winner = VBool(TRUE)})
          /\ 0 <= st[c].wins
          /\ st[c].wins <= st[c].matches
          /\ st[c].matches >= 1
     /\ pc = "idle" =>
          \A c \in DOMAIN out.commander_stats :
             /\ out.commander_stats[c].matches = st[c].matches
             /\ out.commander_stats[c].wins = st[c].wins
             /\ out.commander_stats[c].winrate \in 0..10000

CommanderStatsWitness ==
  /\ pc = "idle"
  /\ "Alpha" \in DOMAIN out.commander_stats
  /\ out.commander_stats["Alpha"].matches >= 2
  /\ out.commander_stats["Alpha"].wins >= 1
  /\ out.commander_stats["Alpha"].wins < out.commander_stats["Alpha"].matches

\* C2: for every collection of Games the cleaner can produce and every
\* card, played_count <= drawn_count <= deck_count.
CardCountOrdering ==
  LET cd == aggregate_card_stats(all_games).card_data
  IN \A name \in DOMAIN cd :
        /\ cd[name].played_count <= cd[name].drawn_count
        /\ cd[name].drawn_count <= cd[name].deck_count

BucketSums ==
  LET dur == aggregate_duration_winrates(all_games)
      act == aggregate_action_winrates(all_games)
      trn == aggregate_turn_winrates(all_games)
  IN \A c \in CommanderNames \ {""} :
        /\ SumGames(DGet(dur, c, <<>>))
             = Cardinality({sl \in AppearancesOf(c) : GameAt(sl).duration_minutes.some})
        /\ SumGames(DGet(act, c, <<>>))
             = Cardinality({sl \in AppearancesOf(c) : PlayerAt(sl).actions.n # 0})
        /\ SumGames(DGet(trn, c, <<>>))
             = Cardinality({sl \in AppearancesOf(c) : PlayerAt(sl).turns.n # 0})

BucketSumsWitness ==
  /\ pc = "idle"
  /\ "Alpha" \in DOMAIN out.duration_wr
  /\ "Alpha" \in DOMAIN out.action_wr
  /\ "Beta" \in DOMAIN out.turn_wr
  /\ \E i \in 1..4 : out.duration_wr["Alpha"][i].games > 0
  /\ Cardinality({i \in 1..5 : out.action_wr["Alpha"][i].games > 0}) >= 2
  /\ \E sl \in AppearancesOf("Beta") : PlayerAt(sl).actions.n = 0
  /\ \E sl \in AppearancesOf("Alpha") : ~GameAt(sl).duration_minutes.some

(***************************************************************************)
(* Properties of the cleaner                                               *)
(***************************************************************************)
CleanDone == pc # "fetched" /\ cleaned.kind # "pending"

AcceptedGame == CleanDone /\ cleaned.kind = "game"

RawPlayers == raw_item.players.players.items

\* the integer a count-like field stands for: a number itself, a digit
\* string its value, any other string 0; nothing for the other types
IntegerOf(v) ==
  CASE v.t \in {"int", "bool"} -> Some(v.n)
    [] v.t = "str" -> Some(IF isdigit(v.s) THEN int(v.s) ELSE 0)
    [] OTHER -> NoOpt

AtLeast(v, k) == IntegerOf(v).some /\ IntegerOf(v).n >= k

\* the validation gates, read off the raw record
GatesPass(item) ==
  /\ item.firstPlayer.t # "missing"
  /\ item.firstPlayer # VInt(0)
  /\ item.firstPlayer # VStr(<<"0">>)
  /\ item.players.enc \in {"json", "doubled", "native"}
  /\ item.players.top = "dict"
  /\ item.players.numPlayers.t # "missing"
  /\ item.players.players.t = "list"
  /\ AtLeast(item.players.numPlayers, 2)
  /\ Len(item.players.players.items) >= 2
  /\ \A i \in 1..Len(item.players.players.items) :
        /\ item.players.players.items[i].t = "dict"
        /\ AtLeast(item.players.players.items[i].turnsTaken, MIN_TURNS)

\* C6: clean_game returns a Game exactly when every gate passes, and a
\* rejection (no Game) otherwise.
GameIffGatesPass ==
  CleanDone =>
    /\ (cleaned.kind = "game") <=> GatesPass(raw_item)
    /\ ~GatesPass(raw_item) => cleaned.kind = "none"

\* C7: whatever the types of the fields of the record, clean_game returns
\* a Game or a rejection and never raises, so the batch is never aborted.
CleanNeverRaises ==
  /\ cleaned.kind # "raise"
  /\ pc # "aborted"

\* a raw winner that counts as true: the boolean true, or "true" in any case
RawWinnerTrue(v) ==
  \/ v = VBool(TRUE)
  \/ /\ v.t = "str"
     /\ Len(v.s) = 4
     /\ v.s[1] \in {"t", "T"}
     /\ v.s[2] \in {"r", "R"}
     /\ v.s[3] \in {"u", "U"}
     /\ v.s[4] \in {"e", "E"}

\* C8: in every accepted record the cleaned winner of a player is the
\* boolean true when the raw winner is the boolean true or the string
\* "true" in any case, and the boolean false in every other case.
WinnerIsBoolean ==
  AcceptedGame =>
    \A i \in 1..Len(cleaned.game.players) :
       cleaned.game.players[i].winner = VBool(RawWinnerTrue(RawPlayers[i].winner))

\* C9: the first_player of an accepted Game is one of the canonical
\* strings "1", "2" or "99".
FirstPlayerCanonical ==
  AcceptedGame => cleaned.game.first_player \in {<<"1">>, <<"2">>, <<"9", "9">>}

\* the card lists of a cleaned player
CardLists(p) == <<p.cards_in_deck, p.cards_drawn, p.cards_played>>

\* C11: in every Game returned by clean_game every entry of every player's
\* cards_in_deck, cards_drawn and cards_played has a non-empty name and an
\* integer count >= 1.
CardEntriesValid ==
  AcceptedGame =>
    \A i \in 1..Len(cleaned.game.players) :
       \A l \in 1..3 :
          LET cards == CardLists(cleaned.game.players[i])[l]
          IN \A k \in 1..Len(cards) :
                /\ cards[k].name # ""
                /\ cards[k].count.t = "int"
                /\ cards[k].count.n >= 1

\* a timestamp field that parse_datetime turns into a datetime
Parses(dt) == dt.t = "str" /\ dt.fmt = "ok"

\* C12: in every Game returned by clean_game, duration_minutes is None when
\* either timestamp is missing or unparseable or the end is not strictly
\* after the start; otherwise it is the difference end - start in minutes
\* (kept to one decimal), which is never negative.
DurationNoneOrDifference ==
  AcceptedGame =>
    LET st == raw_item.datetimeStarted
        en == raw_item.datetime
        dur == cleaned.game.duration_minutes
    IN /\ (~Parses(st) \/ ~Parses(en) \/ en.n <= st.n) => ~dur.some
       /\ (Parses(st) /\ Parses(en) /\ en.n > st.n) =>
             /\ dur.some
             /\ 6 * dur.n - (en.n - st.n) \in -3..3
       /\ dur.some => dur.n >= 0

DurationWitness ==
  /\ AcceptedGame
  /\ Parses(raw_item.datetimeStarted)
  /\ raw_item.datetime.n - raw_item.datetimeStarted.n = 1
  /\ cleaned.game.duration_minutes = Some(0)

\* C13: normalize_commander and normalize_card return the canonical name
\* for every key of their rename table and the input unchanged for every
\* other input: the empty string, None, a canonical name, a name differing
\* from a key only in letter case.
NormalizersCanonicalOrUnchanged ==
  pc = "normalized" =>
    /\ cleaned.commander =
         CASE raw_item.commander = Name("Elber, Jungle Emmisary") -> Name("Elber, Jungle Emissary")
           [] raw_item.commander = Name("Layna, Soulcatcher") -> Name("Soultaker Viessa")
           [] raw_item.commander = Name("Lyre, Tactician of the Order") -> Name("Elyse of the Order")
           [] OTHER -> raw_item.commander
    /\ cleaned.card = raw_item.card

NormalizersWitness ==
  /\ pc = "normalized"
  /\ raw_item.commander = Name("elber, jungle emmisary")
  /\ cleaned.commander = Name("elber, jungle emmisary")
  /\ raw_item.card = NoName
  /\ cleaned.card = NoName

\* C14: with days not None, filter_games_by_period returns exactly the
\* games whose datetime parsed and lies within [now - days, now]; with days
\* None it returns every game.
PeriodWindowClosed ==
  \A j \in 1..Len(PeriodKeys) :
     LET days == PERIODS[PeriodKeys[j]]
     IN filter_games_by_period(all_games, days, now) =
          IF ~days.some THEN all_games
          ELSE SelectSeq(all_games,
                         LAMBDA g : /\ g.datetime.some
                                    /\ g.datetime.n >= now - days.n * Day
                                    /\ g.datetime.n <= now)

\* C15: when build_and_write_all has completed, every aggregation key of
\* the output has an entry for each of the 4 periods and, under each
\* period, for each of the 4 maps, also where the slice holds no games.
AllCellsPresent ==
  pc = "idle" =>
    \A key \in OutKeys :
       /\ DOMAIN site[key] = {"all", "6m", "3m", "1m"}
       /\ \A period \in {"all", "6m", "3m", "1m"} :
             DOMAIN site[key][period] = {"all", "Dunes", "Snowmelt", "Tropics"}

AllCellsWitness ==
  /\ pc = "idle"
  /\ Len(all_games) >= 1
  /\ site["metadata"]["all"]["Dunes"].total_matches >= 1
  /\ site["metadata"]["1m"]["Dunes"].total_matches = 0
  /\ site["metadata"]["all"]["Tropics"].total_matches = 0

\* C16: if an aggregator raises for one period x map slice, the result of
\* every other aggregator and of every other slice is still computed and
\* handed to the output.
FailureIsolated ==
  pc = "failed" =>
    \A key \in OutKeys : \A j \in 1..Len(PeriodKeys) : \A i \in 1..Len(MAPS) :
       LET map_games == slice_of(all_games, PeriodKeys[j], MAPS[i], now)
       IN ~KeyRaises(key, map_games) =>
            /\ PeriodKeys[j] \in DOMAIN site[key]
            /\ MAPS[i] \in DOMAIN site[key][PeriodKeys[j]]
            /\ site[key][PeriodKeys[j]][MAPS[i]] = KeyValue(key, map_games, now)

\* C17: every aggregator returns, on the empty collection, a valid empty
\* or zeroed result: no commanders, no matchups, no cards, no trend dates,
\* no matchup details, no deck compositions, no commander card lists,
\* all histogram totals 0, first-turn total_games 0 with a null
\* first_player_winrate; so does every cell of the output whose slice is empty.
EmptySliceZeroed ==
  /\ DOMAIN aggregate_commander_stats(<<>>) = {}
  /\ DOMAIN aggregate_matchups(<<>>) = {}
  /\ ~aggregate_card_stats(<<>>).is_tuple
  /\ DOMAIN aggregate_card_stats(<<>>).card_data = {}
  /\ DOMAIN aggregate_trends(<<>>).weekly = {}
  /\ DOMAIN aggregate_trends(<<>>).weekly_total = {}
  /\ aggregate_matchup_details(<<>>) = <<>>
  /\ DOMAIN aggregate_deck_composition(<<>>) = {}
  /\ DOMAIN aggregate_commander_card_stats(<<>>) = {}
  /\ aggregate_commander_winrate_trends(<<>>).dates = <<>>
  /\ ~slice_raises(<<>>)
  /\ pc = "idle" =>
       \A j \in 1..Len(PeriodKeys) : \A i \in 1..Len(MAPS) :
          LET period == PeriodKeys[j]
              map_name == MAPS[i]
              cell(key) == site[key][period][map_name]
              clock == cell("metadata").last_updated
          IN Len(slice_of(all_games, period, map_name, clock)) = 0 =>
               /\ cell("metadata").total_matches = 0
               /\ cell("metadata").total_players = 0
               /\ DOMAIN cell("commander_stats") = {}
               /\ DOMAIN cell("matchups") = {}
               /\ DOMAIN cell("card_stats") = {}
               /\ cell("cmd_trends").dates = <<>>
               /\ DOMAIN cell("cmd_trends").commanders = {}
               /\ \A h \in {cell("distributions").duration, cell("distributions").turns,
                             cell("distributions").actions} :
                     h.total = 0 /\ \A k \in DOMAIN h.counts : h.counts[k] = 0
               /\ cell("first_turn").total_games = 0
               /\ cell("first_turn").first_player_wins = 0
               /\ cell("first_turn").first_player_winrate = NoOpt
               /\ DOMAIN cell("first_turn").per_commander = {}
               /\ DOMAIN cell("duration_wr") = {}
               /\ DOMAIN cell("action_wr") = {}
               /\ DOMAIN cell("turn_wr") = {}
               /\ cell("matchup_details") = <<>>
               /\ DOMAIN cell("deck_comp") = {}
               /\ DOMAIN cell("cmd_card_stats") = {}
               /\ cell("cmd_wr_trends").dates = <<>>
               /\ DOMAIN cell("cmd_wr_trends").commanders = {}
               /\ cell("trends").dates = <<>>
               /\ DOMAIN cell("trends").factions = {}

EmptySliceWitness ==
  /\ pc = "idle"
  /\ Len(all_games) = 2
  /\ Len(slice_of(all_games, "3m", "all", now)) = 1
  /\ Len(slice_of(all_games, "1m", "all", now)) = 0
  /\ site["first_turn"]["3m"]["all"].total_games = 1
  /\ site["first_turn"]["1m"]["all"].total_games = 0

\* a run of the aggregation stage on the collection of the previous run: the
\* scan was skipped or its record was rejected
SameCollectionRun == pc = "cleaned" /\ pc' = "idle" /\ cleaned.kind # "game"

\* C18 (as stated): running the aggregation stage twice on the same Game
\* collection yields identical results for every aggregation and every
\* period x map cell.
RerunIdentical == [][SameCollectionRun => site' = site]_vars

\* a game left the window of the period between the clock readings c1 <= c2
LeftWindow(period, c1, c2) ==
  /\ period # "all"
  /\ \E k \in 1..Len(all_games) :
        LET dt == all_games[k].datetime
            days == PERIODS[period].n
        IN dt.some /\ dt.n >= c1 - days * Day /\ dt.n < c2 - days * Day

\* the value of a cell without its timestamp
Untimed(key, v) ==
  IF key = "metadata"
  THEN [total_matches |-> v.total_matches, total_players |-> v.total_players]
  ELSE v

\* C18 (amended): running the aggregation stage twice on the same Game
\* collection yields identical results for every aggregation and every
\* period x map cell, apart from metadata.last_updated and from the cells of a
\* period whose window a game left between the two runs.
RerunIdenticalUpToClock ==
  [][SameCollectionRun =>
       \A j \in 1..Len(PeriodKeys) : \A i \in 1..Len(MAPS) :
          LET period == PeriodKeys[j]
              map_name == MAPS[i]
              c1 == site["metadata"][period][map_name].last_updated
          IN ~LeftWindow(period, c1, now) =>
               \A key \in OutKeys :
                  Untimed(key, site'[key][period][map_name])
                    = Untimed(key, site[key][period][map_name])]_vars

RerunWitness ==
  /\ pc = "idle"
  /\ cleaned.kind = "pending"
  /\ Len(all_games) = 2
  /\ now = Epoch + 31 * Day
  /\ site["metadata"]["all"]["all"].last_updated = now
  /\ site["metadata"]["3m"]["all"].total_matches >= 1
  /\ site["metadata"]["1m"]["all"].total_matches = 0

\* C19: a game whose players list does not have exactly 2 entries changes
\* no value in the results of aggregate_matchups, aggregate_matchup_details
\* and aggregate_first_turn (total_games and first_player_winrate included):
\* the results are those of the two-player games alone.
NonDuelsChangeNothing ==
  LET duels == SelectSeq(all_games, LAMBDA g : Len(g.players) = 2)
  IN /\ aggregate_matchups(all_games) = aggregate_matchups(duels)
     /\ aggregate_matchup_details(all_games) = aggregate_matchup_details(duels)
     /\ aggregate_first_turn(all_games) = aggregate_first_turn(duels)

\* C20: across any sequence of runs the persisted Game collection never holds
\* two Games with the same game_id, and every Game persisted by one run is
\* still present after every later run.
PersistedUniqueAndKept ==
  /\ [](\A i, j \in 1..Len(all_games) :
          i # j => all_games[i].game_id # all_games[j].game_id)
  /\ [][/\ Len(all_games') >= Len(all_games)
        /\ SubSeq(all_games', 1, Len(all_games)) = all_games]_vars

\* the orders in which a collection can arrive
Orderings(seq) ==
  {[i \in 1..Len(seq) |-> seq[f[i]]] :
     f \in {g \in [1..Len(seq) -> 1..Len(seq)] :
              \A i, j \in 1..Len(seq) : i # j => g[i] # g[j]}}

Entries(seq) == {seq[i] : i \in 1..Len(seq)}

\* the matchup-detail records with every list read as the set of its entries
DetailsUnordered(games) ==
  {[r EXCEPT !.cmd_cards = Entries(@), !.opp_cards = Entries(@)] :
     r \in Entries(aggregate_matchup_details(games))}

\* C21: every aggregator returns the same value for every order of the same
\* games; lists may differ only in the relative order of tied entries (here
\* every list is compared as the set of its entries).
OrderIndependent ==
  \A q \in Orderings(all_games) :
     /\ aggregate_commander_stats(q) = aggregate_commander_stats(all_games)
     /\ aggregate_matchups(q) = aggregate_matchups(all_games)
     /\ aggregate_card_stats(q) = aggregate_card_stats(all_games)
     /\ aggregate_first_turn(q) = aggregate_first_turn(all_games)
     /\ DetailsUnordered(q) = DetailsUnordered(all_games)

OrderIndependentBesidesDetails ==
  \A q \in Orderings(all_games) :
     /\ aggregate_commander_stats(q) = aggregate_commander_stats(all_games)
     /\ aggregate_matchups(q) = aggregate_matchups(all_games)
     /\ aggregate_card_stats(q) = aggregate_card_stats(all_games)
     /\ aggregate_first_turn(q) = aggregate_first_turn(all_games)

\* the slices build_and_write_all aggregates at the clock of the run
Slices ==
  {slice_of(all_games, PeriodKeys[j], MAPS[i], now) :
     j \in 1..Len(PeriodKeys), i \in 1..Len(MAPS)}

\* the commander picks of a week: player-appearances with a commander
Picks(games, week) ==
  Cardinality({sl \in {<<i, j>> : i \in 1..Len(games), j \in 1..3} :
                 /\ sl[2] <= Len(games[sl[1]].players)
                 /\ games[sl[1]].datetime.some
                 /\ WeekOf(games[sl[1]].datetime.n) = week
                 /\ games[sl[1]].players[sl[2]].commander # ""})

WeeksWithPicks(games, least) ==
  {week \in {WeekOf(games[i].datetime.n) : i \in {k \in 1..Len(games) : games[k].datetime.some}} :
     Picks(games, week) >= least}

\* C22: in each of the three trend outputs of every slice a week is in
\* `dates` exactly when the commander picks of the week are at least 4.
TrendWeeksByPicks ==
  \A games \in Slices :
     /\ Entries(faction_trends(games).dates) = WeeksWithPicks(games, 4)
     /\ Entries(aggregate_commander_trends(games).dates) = WeeksWithPicks(games, 4)
     /\ Entries(aggregate_commander_winrate_trends(games).dates) = WeeksWithPicks(games, 4)

PopularityWeeksByPicks ==
  \A games \in Slices :
     /\ Entries(faction_trends(games).dates) = WeeksWithPicks(games, 4)
     /\ Entries(aggregate_commander_trends(games).dates) = WeeksWithPicks(games, 4)

\* the entries of cards_played naming `name`, over the players of commander
\* cmd facing commander opp in a two-player game (only those of winners
\* when `winning`)
PlaysOf(games, cmd, opp, name, winning) ==
  Cardinality({e \in {<<i, j>> : i \in 1..Len(games), j \in 1..2} \X (1..(2 * Len(Hand))) :
                 LET g == games[e[1][1]]
                     j == e[1][2]
                 IN /\ Len(g.players) = 2
                    /\ g.players[j].commander = cmd /\ cmd # ""
                    /\ g.players[3 - j].commander = opp /\ opp # ""
                    /\ e[2] <= Len(g.players[j].cards_played)
                    /\ g.players[j].cards_played[e[2]].name = name
                    /\ (winning => Truthy(g.players[j].winner))})

\* the sort key of a card of commander cmd against commander opp
RankOf(games, cmd, opp, name) ==
  [played |-> PlaysOf(games, cmd, opp, name, FALSE),
   played_winrate |-> round4(PlaysOf(games, cmd, opp, name, TRUE),
                             PlaysOf(games, cmd, opp, name, FALSE))]

PlayedNames(games) ==
  UNION {{games[i].players[j].cards_played[k].name :
            k \in 1..Len(games[i].players[j].cards_played)} :
           i \in 1..Len(games), j \in 1..2}

\* the cards left out of a top list although played at least min_games times
OmittedOf(games, cmd, opp, list) ==
  {name \in PlayedNames(games) \ {list[i].name : i \in 1..Len(list)} :
     PlaysOf(games, cmd, opp, name, FALSE) >= 3}

TopListRanked(games, cmd, opp, list) ==
  /\ Len(list) <= 10
  /\ \A i \in 1..Len(list) :
        /\ list[i].played >= 3
        /\ list[i].played = RankOf(games, cmd, opp, list[i].name).played
        /\ list[i].played_winrate = RankOf(games, cmd, opp, list[i].name).played_winrate
  /\ \A i, j \in 1..Len(list) : i < j => ~RanksBefore(list[j], list[i])
  /\ \A name \in OmittedOf(games, cmd, opp, list) :
        \A i \in 1..Len(list) : ~RanksBefore(RankOf(games, cmd, opp, name), list[i])

\* C23: in every matchup-detail record cmd_cards and opp_cards hold at most
\* 10 entries, each played at least 3 times, in descending order of
\* played_winrate and then of played, and no card left out that was played
\* at least 3 times ranks strictly before one that is listed.
TopCardsRanked ==
  \A r \in Entries(aggregate_matchup_details(all_games)) :
     /\ TopListRanked(all_games, r.commander, r.opponent, r.cmd_cards)
     /\ TopListRanked(all_games, r.opponent, r.commander, r.opp_cards)

\* a full list that leaves a card out and ranks cards of different winrates
TopCardsWitness ==
  \E r \in Entries(aggregate_matchup_details(all_games)) :
     /\ Len(r.cmd_cards) = 10
     /\ OmittedOf(all_games, r.commander, r.opponent, r.cmd_cards) # {}
     /\ r.cmd_cards[1].played_winrate > r.cmd_cards[10].played_winrate

\* C24: for a non-empty collection total_player_games is the number of
\* player-appearances, no card's deck_count, drawn_count or played_count
\* exceeds it, and the three rates written by build_and_write_all are within
\* [0, 1].
CardRatesBounded ==
  Len(all_games) > 0 =>
    LET r == aggregate_card_stats(all_games)
        written == build_and_write_all(all_games).card_stats
    IN /\ r.total_player_games = Cardinality(Slots)
       /\ \A name \in DOMAIN r.card_data :
             /\ r.card_data[name].deck_count <= r.total_player_games
             /\ r.card_data[name].drawn_count <= r.total_player_games
             /\ r.card_data[name].played_count <= r.total_player_games
       /\ \A name \in DOMAIN written :
             /\ written[name].deck_rate \in 0..10000
             /\ written[name].drawn_rate \in 0..10000
             /\ written[name].played_rate \in 0..10000

\* the drawn_winrate of the matchup-detail cards is None when the card was
\* never drawn
DetailWinratesNullAtZero ==
  \A r \in Entries(aggregate_matchup_details(all_games)) :
     \A e \in Entries(r.cmd_cards) \cup Entries(r.opp_cards) :
        e.drawn = 0 => ~e.drawn_winrate.some

\* C25: a winrate whose denominator count is zero is written as null, never
\* as 0: the deck, drawn and played winrates of the card statistics and the
\* drawn_winrate of the matchup-detail cards.
WinratesNullAtZero ==
  /\ \A name \in DOMAIN build_and_write_all(all_games).card_stats :
        LET card == build_and_write_all(all_games).card_stats[name]
        IN /\ card.deck_count = 0 => ~card.deck_winrate.some
           /\ card.drawn_count = 0 => ~card.drawn_winrate.some
           /\ card.played_count = 0 => ~card.played_winrate.some
  /\ DetailWinratesNullAtZero

\* the two-player games in which commanders A and B faced each other
FacedIn(games, A, B) ==
  {i \in 1..Len(games) :
     /\ Len(games[i].players) = 2
     /\ \/ games[i].players[1].commander = A /\ games[i].players[2].commander = B
        \/ games[i].players[1].commander = B /\ games[i].players[2].commander = A}

\* C26: for distinct non-empty commanders A and B the wins plus the losses
\* of A against B, which are the wins of A against B plus the wins of B
\* against A, are the number of two-player games in which they faced each
\* other.
MatchupTotalsCountGames ==
  LET m == aggregate_matchups(all_games)
  IN \A A \in CommanderNames \ {""}, B \in CommanderNames \ {""} :
        A # B =>
          LET ab == DGet(m, <<A, B>>, ZeroMatchup)
              ba == DGet(m, <<B, A>>, ZeroMatchup)
          IN /\ ab.wins + ab.losses = Cardinality(FacedIn(all_games, A, B))
             /\ ab.wins + ba.wins = Cardinality(FacedIn(all_games, A, B))

\* the same over the games in which a player is marked as the winner
MatchupTotalsCountDecided ==
  LET m == aggregate_matchups(all_games)
      decided == SelectSeq(all_games, LAMBDA g : \E j \in 1..Len(g.players) : Truthy(g.players[j].winner))
  IN \A A \in CommanderNames \ {""}, B \in CommanderNames \ {""} :
        A # B =>
          LET ab == DGet(m, <<A, B>>, ZeroMatchup)
              ba == DGet(m, <<B, A>>, ZeroMatchup)
          IN /\ ab.wins + ab.losses = Cardinality(FacedIn(decided, A, B))
             /\ ab.wins + ba.wins = Cardinality(FacedIn(decided, A, B))

\* C27: aggregate_matchup_details and aggregate_matchups agree: a details
\* record has the wins and the losses of the same ordered pair of the
\* matchups, its total is their sum, and the records are those of the pairs
\* whose matchups total is at least 1.
DetailsAgreeWithMatchups ==
  LET m == aggregate_matchups(all_games)
      d == Entries(aggregate_matchup_details(all_games))
  IN /\ \A r \in d :
          /\ r.wins = DGet(m, <<r.commander, r.opponent>>, ZeroMatchup).wins
          /\ r.losses = DGet(m, <<r.commander, r.opponent>>, ZeroMatchup).losses
          /\ r.total = r.wins + r.losses
     /\ {<<r.commander, r.opponent>> : r \in d}
          = {k \in DOMAIN m : m[k].wins + m[k].losses >= 1}

\* the same over the games that do not mark both players as winners
DetailsAgreeOnSingleWinners ==
  LET games == SelectSeq(all_games,
                         LAMBDA g : ~\A j \in 1..Len(g.players) : Truthy(g.players[j].winner))
      m == aggregate_matchups(games)
      d == Entries(aggregate_matchup_details(games))
  IN /\ \A r \in d :
          /\ r.wins = DGet(m, <<r.commander, r.opponent>>, ZeroMatchup).wins
          /\ r.losses = DGet(m, <<r.commander, r.opponent>>, ZeroMatchup).losses
          /\ r.total = r.wins + r.losses
     /\ {<<r.commander, r.opponent>> : r \in d}
          = {k \in DOMAIN m : m[k].wins + m[k].losses >= 1}

\* the items scan_all_games has to return: those of all pages whose gameid
\* is not cached, in page order
ExpectedItems(pages) ==
  SelectSeq(Flatten(pages), LAMBDA item : item.gameid \notin cached_ids)

\* C28: a throttled request is retried with the same ExclusiveStartKey, so
\* no page is skipped and none is appended twice; when the store stops
\* throttling and answers the last page the scan ends and returns the items
\* of all pages whose gameid is not cached, in page order.
ScanRetriesAndReturns ==
  /\ [][(pc = "scanning" /\ scan'.throttled # scan.throttled) =>
          (/\ scan'.start = scan.start
           /\ scan'.items = scan.items
           /\ pc' = "scanning")]_vars
  /\ [](pc = "scanning" =>
          scan.items = ExpectedItems(SubSeq(scan.pages, 1, scan.start)))
  /\ [](pc = "scanned" => raw_items = ExpectedItems(scan.pages))
  /\ (pc = "scanning") ~> (pc = "scanned" \/ pc = "scan_raised")

\* a scan of three pages, throttled on a later page, that skipped a cached
\* record and returned the others
ScanWitness ==
  /\ pc = "scanned"
  /\ Len(scan.pages) = 3
  /\ scan.throttled > 0
  /\ scan.page > Len(scan.pages)
  /\ Len(raw_items) = 1
  /\ Len(Flatten(scan.pages)) > Len(raw_items)

\* the picks of commander cmd in a week; of two-player games only when
\* `duels`, of games between different commanders only when `no_mirror`, of
\* winners only when `winning`
PicksOf(games, week, cmd, duels, no_mirror, winning) ==
  Cardinality({sl \in {<<i, j>> : i \in 1..Len(games), j \in 1..3} :
                 LET g == games[sl[1]]
                 IN /\ sl[2] <= Len(g.players)
                    /\ g.datetime.some
                    /\ WeekOf(g.datetime.n) = week
                    /\ g.players[sl[2]].commander = cmd
                    /\ duels => Len(g.players) = 2
                    /\ no_mirror => g.players[1].commander # g.players[2].commander
                    /\ winning => Truthy(g.players[sl[2]].winner)})

RateOf(wins, total) == IF total > 0 THEN Some(round_pct(wins, total)) ELSE NoOpt

Ascending(dates) == \A i, j \in 1..Len(dates) : i < j => WeekBefore(dates[i], dates[j])

\* C29: every per-commander series of aggregate_commander_trends and of
\* aggregate_commander_winrate_trends has as many entries as `dates`,
\* entry i is the value of the commander in week dates[i], and `dates` is
\* strictly ascending.
TrendSeriesAligned ==
  LET pop == aggregate_commander_trends(all_games)
      wr == aggregate_commander_winrate_trends(all_games)
  IN /\ Ascending(pop.dates)
     /\ Ascending(wr.dates)
     /\ \A cmd \in DOMAIN pop.commanders :
           /\ Len(pop.commanders[cmd]) = Len(pop.dates)
           /\ \A i \in 1..Len(pop.dates) :
                 pop.commanders[cmd][i]
                   = round_pct(PicksOf(all_games, pop.dates[i], cmd, FALSE, FALSE, FALSE),
                               Picks(all_games, pop.dates[i]))
     /\ \A cmd \in DOMAIN wr.commanders :
           LET lists == wr.commanders[cmd]
           IN /\ Len(lists.winrate) = Len(wr.dates)
              /\ Len(lists.games) = Len(wr.dates)
              /\ Len(lists.winrate_no_mirror) = Len(wr.dates)
              /\ Len(lists.games_no_mirror) = Len(wr.dates)
              /\ \A i \in 1..Len(wr.dates) :
                    LET week == wr.dates[i]
                    IN /\ lists.games[i] = PicksOf(all_games, week, cmd, TRUE, FALSE, FALSE)
                       /\ lists.games_no_mirror[i] = PicksOf(all_games, week, cmd, TRUE, TRUE, FALSE)
                       /\ lists.winrate[i]
                            = RateOf(PicksOf(all_games, week, cmd, TRUE, FALSE, TRUE),
                                     PicksOf(all_games, week, cmd, TRUE, FALSE, FALSE))
                       /\ lists.winrate_no_mirror[i]
                            = RateOf(PicksOf(all_games, week, cmd, TRUE, TRUE, TRUE),
                                     PicksOf(all_games, week, cmd, TRUE, TRUE, FALSE))

\* two kept weeks, loaded in descending order, and a commander picked in
\* one of them only
TrendSeriesWitness ==
  LET pop == aggregate_commander_trends(all_games)
      wr == aggregate_commander_winrate_trends(all_games)
  IN /\ Len(pop.dates) = 2
     /\ Len(wr.dates) = 2
     /\ all_games[1].datetime.some
     /\ WeekOf(all_games[1].datetime.n) = wr.dates[2]
     /\ \E cmd \in DOMAIN wr.commanders : wr.commanders[cmd].games = <<4, 0>>
     /\ \E cmd \in DOMAIN pop.commanders : pop.commanders[cmd][2] = 0

\* C30: the per-commander aggregators agree on the appearances of every
\* commander: deck_count of the deck composition is matches of the commander
\* statistics and `games` of every card entry of the commander card
\* statistics, and the winning and the losing decks of the deck composition
\* add up to deck_count.
AppearanceCountsAgree ==
  LET comp == aggregate_deck_composition(all_games)
      data == deck_composition_data(all_games)
      stats == aggregate_commander_stats(all_games)
      cards == aggregate_commander_card_stats(all_games)
  IN /\ DOMAIN comp = DOMAIN stats
     /\ DOMAIN cards \subseteq DOMAIN comp
     /\ \A c \in DOMAIN comp :
           /\ comp[c].deck_count = stats[c].matches
           /\ comp[c].deck_count = Cardinality(AppearancesOf(c))
           /\ Len(data[c].win) + Len(data[c].loss) = comp[c].deck_count
     /\ \A c \in DOMAIN cards :
           \A i \in 1..Len(cards[c]) : cards[c][i].games = comp[c].deck_count

\* a commander with a winning and a losing deck and several card entries
AppearanceCountsWitness ==
  \E c \in DOMAIN aggregate_commander_card_stats(all_games) :
     /\ Len(deck_composition_data(all_games)[c].win) >= 1
     /\ Len(deck_composition_data(all_games)[c].loss) >= 1
     /\ Len(aggregate_commander_card_stats(all_games)[c]) >= 2
     /\ aggregate_deck_composition(all_games)[c].avg_cost > 0

\* C10: in every Game returned by clean_game the turns and the actions of
\* every player are non-negative integers: a native number is kept, a
\* numeric string gives its value, a non-numeric string gives 0.
TurnsActionsNonNegative ==
  AcceptedGame =>
    \A i \in 1..Len(cleaned.game.players) :
       LET p == cleaned.game.players[i]
           raw == RawPlayers[i]
       IN /\ p.turns.t = "int" /\ p.turns.n >= 0
          /\ p.actions.t = "int" /\ p.actions.n >= 0
          /\ raw.turnsTaken.t = "int" => p.turns = raw.turnsTaken
          /\ raw.actionsTaken.t = "int" => p.actions = raw.actionsTaken
          /\ raw.actionsTaken.t = "str" => p.actions = VInt(IntegerOf(raw.actionsTaken).n)
          /\ raw.turnsTaken.t = "str" => p.turns = VInt(IntegerOf(raw.turnsTaken).n)

====
